---- MODULE Spec2Model ----
(***************************************************************************)
(* The aviation ETL pipeline of src/transform.py: the Quality Gate (BR-1,  *)
(* BR-2, BR-3), the attribute derivation, the (date, aircraft) aggregation *)
(* and the reconciliation into the daily fact table, the date dimension    *)
(* and the Total Maintenance Reports fact; load() of src/load.py; and the  *)
(* driver of src/etl_control_flow.py with the stages of src/src/.          *)
(*                                                                         *)
(* A DataFrame is a function from its index labels to its rows; a grouped  *)
(* result is the set of its rows (one per key).  Timestamps are whole      *)
(* minutes on a calendar of twelve 31-day months; NaT is the missing       *)
(* timestamp.  flighthours, TOSS/TOSU and ADOSS/ADOSU are held in minutes  *)
(* (the code divides the same differences by 3600 s and 86400 s).          *)
(***************************************************************************)
EXTENDS Integers, Sequences, FiniteSets, TLC

VARIABLES
    pc,                      \* position in transform()
    flights_df,              \* data["flights"], mutated in place
    maint_df,                \* data["maintenance"], mutated in place
    reports_df,              \* data["reports"], mutated in place
    lookup_reporters_df,     \* data["lookup_reporters"]: sequence of rows
    aircrafts,               \* data["lookup_aircrafts"]: the registrations
    airports,                \* the airport dimension records
    gate_flights,            \* flights_df as the Quality Gate left it
    extracted_data,          \* the batches as extract() returned them
    agg_flights,
    agg_maint,
    time_df,
    daily_flight_stats,
    total_maint_reports,
    overlapping_flights_csv, \* rows appended to overlapping_flights.csv
    invalid_reports_csv,     \* rows appended to invalid_reports.csv
    dw,                      \* the warehouse tables as the connection sees them
    dw_committed,            \* the warehouse tables as of the last commit
    raised,                  \* the stage whose exception ended the run, or NoError
    progress                 \* the batches the driver has extracted, the steps it has run

vars == <<pc, flights_df, maint_df, reports_df, lookup_reporters_df, aircrafts,
          airports, gate_flights, extracted_data, agg_flights, agg_maint, time_df,
          daily_flight_stats, total_maint_reports, overlapping_flights_csv,
          invalid_reports_csv, dw, dw_committed, raised, progress>>

\* the state of the warehouse and of the run, which transform() does not touch
runVars == <<dw, dw_committed, raised, progress>>

----------------------------------------------------------------------------
(* Bounds of the model *)

\* actual timestamps of the Quality Gate inputs are minutes 0..MaxTime of one day
MaxTime == 2

\* rows of the reporter lookup
MaxLookup == 2

----------------------------------------------------------------------------
(* Values *)

NaT == -1
\* the missing value of a numeric column
NaN == -1000000
NoReg == "NaN"
Regs == {"r1", "r2"}
PIREP == "PIREP"
MAREP == "MAREP"

\* pd.Timestamp(year, month, day) + minute
Stamp(y, m, d, mi) == ((y * 12 + (m - 1)) * 31 + (d - 1)) * 1440 + mi
\* .year: nan of NaT
YearOf(t) == IF t = NaT THEN NaN ELSE t \div (12 * 31 * 1440)
MonthOf(t) == ((t \div (31 * 1440)) % 12) + 1
DayOf(t) == ((t \div 1440) % 31) + 1

\* f"{date.year}-{date.month}-{date.day}": the three unpadded fields, "nan-nan-nan"
\* of NaT
build_dateCode(date) ==
    IF date = NaT THEN <<NaN, NaN, NaN>> ELSE <<YearOf(date), MonthOf(date), DayOf(date)>>

\* build_monthCode without the zfill(2): f"{date.year}{date.month}"
build_monthCode_Unpadded(date) ==
    IF MonthOf(date) < 10 THEN YearOf(date) * 10 + MonthOf(date)
    ELSE YearOf(date) * 100 + MonthOf(date)

\* f"{date.year}{str(date.month).zfill(2)}"
build_monthCode(date) == YearOf(date) * 100 + MonthOf(date)

\* the characters of str(n) for a natural number n
DigitChar(d) == <<"0", "1", "2", "3", "4", "5", "6", "7", "8", "9">>[d + 1]
RECURSIVE Digits(_)
Digits(n) == IF n < 10 THEN <<DigitChar(n)>> ELSE Append(Digits(n \div 10), DigitChar(n % 10))

\* the three fields of a date code written one after the other, without the "-"
DateCodeString_Unseparated(code) ==
    IF code = <<NaN, NaN, NaN>> THEN <<"n", "a", "n", "n", "a", "n", "n", "a", "n">>
    ELSE Digits(code[1]) \o Digits(code[2]) \o Digits(code[3])

\* the characters of the string f"{date.year}-{date.month}-{date.day}" of a date code
DateCodeString(code) ==
    IF code = <<NaN, NaN, NaN>> THEN <<"n", "a", "n", "-", "n", "a", "n", "-", "n", "a", "n">>
    ELSE Digits(code[1]) \o <<"-">> \o Digits(code[2]) \o <<"-">> \o Digits(code[3])

\* pd.to_datetime(errors="coerce") of a date code: midnight of that day, NaT of a
\* code that is no date
to_datetime(code) ==
    IF code = <<NaN, NaN, NaN>> THEN NaT ELSE Stamp(code[1], code[2], code[3], 0)

----------------------------------------------------------------------------
(* Helpers *)

RECURSIVE SumOver(_, _)
\* the sum of f[x] over the finite set S
SumOver(S, f) ==
    IF S = {} THEN 0
    ELSE LET x == CHOOSE y \in S : TRUE IN f[x] + SumOver(S \ {x}, f)

\* the orderings of the finite set S
Orderings(S) ==
    {s \in [1..Cardinality(S) -> S] : \A i, j \in 1..Cardinality(S) : s[i] = s[j] => i = j}

RECURSIVE SortAsc(_)
\* sorted(S): the integers of S in ascending order
SortAsc(S) ==
    IF S = {} THEN <<>>
    ELSE LET m == CHOOSE x \in S : \A y \in S : x <= y IN <<m>> \o SortAsc(S \ {m})

\* sort_values key: NaT sorts last
DepLe(a, b) == b = NaT \/ (a # NaT /\ a <= b)

----------------------------------------------------------------------------
(* Dimension Normalizer *)

RECURSIVE drop_duplicates(_)
\* DataFrame.drop_duplicates(): the first occurrence of every value, in order
drop_duplicates(s) ==
    IF s = <<>> THEN <<>>
    ELSE LET init == drop_duplicates(SubSeq(s, 1, Len(s) - 1))
             last == s[Len(s)]
         IN IF \E k \in 1..Len(init) : init[k] = last THEN init ELSE Append(init, last)

\* lookup_reporters_df[["airport"]].drop_duplicates(), renamed to airportcode
transform_reporter_lookup(lookup) ==
    drop_duplicates([k \in 1..Len(lookup) |-> [airportcode |-> lookup[k].airport]])

TransformLookups ==
    /\ pc = "lookups"
    /\ airports' = transform_reporter_lookup(lookup_reporters_df)
    /\ pc' = "rule1"
    /\ UNCHANGED <<flights_df, maint_df, reports_df, lookup_reporters_df, aircrafts,
                   gate_flights, extracted_data, agg_flights, agg_maint, time_df,
                   daily_flight_stats, total_maint_reports, overlapping_flights_csv,
                   invalid_reports_csv>>
    /\ UNCHANGED runVars

----------------------------------------------------------------------------
(* Quality Gate *)

\* Rule1Violations without the cancelled mask
Rule1Violations_AlsoCancelled(df) ==
    {i \in DOMAIN df :
        /\ df[i].actualarrival # NaT
        /\ df[i].actualdeparture # NaT
        /\ df[i].actualarrival <= df[i].actualdeparture}

\* BR-1's violations: non-cancelled, both actual timestamps present, arrival <= departure
Rule1Violations(df) ==
    {i \in DOMAIN df :
        /\ ~df[i].cancelled
        /\ df[i].actualarrival # NaT
        /\ df[i].actualdeparture # NaT
        /\ df[i].actualarrival <= df[i].actualdeparture}

\* BR-1 without its fix: the row stays as it was
SwapActual_Nothing(row) == row

\* the swap through temp
SwapActual(row) ==
    [row EXCEPT !.actualarrival = row.actualdeparture,
                !.actualdeparture = row.actualarrival]

check_rule_1_actualarrival_after_departure(df) ==
    [i \in DOMAIN df |-> IF i \in Rule1Violations(df) THEN SwapActual(df[i]) ELSE df[i]]

CheckRule1 ==
    /\ pc = "rule1"
    /\ flights_df' = check_rule_1_actualarrival_after_departure(flights_df)
    /\ pc' = "rule2"
    /\ UNCHANGED <<maint_df, reports_df, lookup_reporters_df, aircrafts, airports,
                   gate_flights, extracted_data, agg_flights, agg_maint, time_df,
                   daily_flight_stats, total_maint_reports, overlapping_flights_csv,
                   invalid_reports_csv>>
    /\ UNCHANGED runVars

\* flights_df[~flights_df["cancelled"]]
NonCancelled(df) == {i \in DOMAIN df : ~df[i].cancelled}

\* position of a registration in the sorted group keys
RegRank(r) == IF r = "r1" THEN 1 ELSE 2

\* SortedOrders without the sort by departure: the flights grouped by aircraft only
SortedOrders_Unsorted(df) ==
    {s \in Orderings(NonCancelled(df)) :
        \A k \in 1..(Cardinality(NonCancelled(df)) - 1) :
            RegRank(df[s[k]].aircraftregistration) <= RegRank(df[s[k + 1]].aircraftregistration)}

\* the orders sort_values(["aircraftregistration", "actualdeparture"]) followed by the
\* per-group sort_values("actualdeparture") can leave the non-cancelled flights in:
\* NaT departures last, equal departures in either order
SortedOrders(df) ==
    {s \in Orderings(NonCancelled(df)) :
        \A k \in 1..(Cardinality(NonCancelled(df)) - 1) :
            \/ RegRank(df[s[k]].aircraftregistration) < RegRank(df[s[k + 1]].aircraftregistration)
            \/ /\ df[s[k]].aircraftregistration = df[s[k + 1]].aircraftregistration
               /\ DepLe(df[s[k]].actualdeparture, df[s[k + 1]].actualdeparture)}

\* OverlapPositions that also takes an arrival equal to the next departure for an overlap
OverlapPositions_NonStrict(df, s) ==
    {k \in 1..(Cardinality(NonCancelled(df)) - 1) :
        /\ df[s[k]].aircraftregistration = df[s[k + 1]].aircraftregistration
        /\ df[s[k]].actualarrival # NaT
        /\ df[s[k + 1]].actualdeparture # NaT
        /\ df[s[k]].actualarrival >= df[s[k + 1]].actualdeparture}

\* the positions i of the single pass whose flight overlaps the next one of its group
OverlapPositions(df, s) ==
    {k \in 1..(Cardinality(NonCancelled(df)) - 1) :
        /\ df[s[k]].aircraftregistration = df[s[k + 1]].aircraftregistration
        /\ df[s[k]].actualarrival # NaT
        /\ df[s[k + 1]].actualdeparture # NaT
        /\ df[s[k]].actualarrival > df[s[k + 1]].actualdeparture}

RECURSIVE RowsAt(_, _, _, _)
\* overlapping_rows / invalid rows: df's rows at the positions P of s, in s's order
RowsAt(df, s, P, n) ==
    IF n = 0 THEN <<>>
    ELSE IF n \in P THEN Append(RowsAt(df, s, P, n - 1), df[s[n]])
         ELSE RowsAt(df, s, P, n - 1)

\* to_csv(mode="a"), and to_csv(mode="w") when the append raises
AppendCsv(csv, rows) == {csv \o rows, rows}

\* a drop that leaves the frame as it was
Drop_Nothing(df, labels) == df

\* DataFrame.drop(labels)
Drop(df, labels) == [i \in (DOMAIN df) \ labels |-> df[i]]

CheckRule2 ==
    /\ pc = "rule2"
    /\ \E s \in SortedOrders(flights_df) :
         LET P == OverlapPositions(flights_df, s)
             indices_to_remove == {s[k] : k \in P}
             overlapping_rows == RowsAt(flights_df, s, P, Cardinality(NonCancelled(flights_df)))
         IN IF overlapping_rows # <<>>
            THEN /\ overlapping_flights_csv' \in AppendCsv(overlapping_flights_csv, overlapping_rows)
                 /\ flights_df' = Drop(flights_df, indices_to_remove)
            ELSE UNCHANGED <<overlapping_flights_csv, flights_df>>
    /\ gate_flights' = flights_df'
    /\ pc' = "rule3"
    /\ UNCHANGED <<maint_df, reports_df, lookup_reporters_df, aircrafts, airports,
                   extracted_data, agg_flights, agg_maint, time_df, daily_flight_stats,
                   total_maint_reports, invalid_reports_csv>>
    /\ UNCHANGED runVars

\* InvalidReports that only finds the missing registrations
InvalidReports_MissingOnly(df, acs) == {i \in DOMAIN df : df[i].aircraftregistration = NoReg}

\* ~reports_df["aircraftregistration"].isin(valid_aircrafts)
InvalidReports(df, acs) == {i \in DOMAIN df : df[i].aircraftregistration \notin acs}

\* the index labels of df in ascending order
IndexOrder(df) == SortAsc(DOMAIN df)

CheckRule3 ==
    /\ pc = "rule3"
    /\ LET invalid == InvalidReports(reports_df, aircrafts)
           s == IndexOrder(reports_df)
           invalid_rows == RowsAt(reports_df, s, {k \in DOMAIN s : s[k] \in invalid},
                                  Cardinality(DOMAIN reports_df))
       IN IF invalid # {}
          THEN /\ invalid_reports_csv' \in AppendCsv(invalid_reports_csv, invalid_rows)
               /\ reports_df' = Drop(reports_df, invalid)
          ELSE UNCHANGED <<invalid_reports_csv, reports_df>>
    /\ pc' = "flights"
    /\ UNCHANGED <<flights_df, maint_df, lookup_reporters_df, aircrafts, airports,
                   gate_flights, extracted_data, agg_flights, agg_maint, time_df,
                   daily_flight_stats, total_maint_reports, overlapping_flights_csv>>
    /\ UNCHANGED runVars

----------------------------------------------------------------------------
(* Attribute Deriver and Grain Aggregator *)

\* (actualarrival - scheduledarrival).dt.total_seconds() / 60
DelayMins(row) ==
    IF row.actualarrival = NaT \/ row.scheduledarrival = NaT THEN NaN
    ELSE row.actualarrival - row.scheduledarrival

\* calc_delay with delay_mins >= 15
calc_delay_From15(row) ==
    IF /\ ~row.cancelled
       /\ DelayMins(row) # NaN
       /\ DelayMins(row) >= 15
       /\ DelayMins(row) < 60 * 6
    THEN DelayMins(row)
    ELSE 0

\* calc_delay with delay_mins <= 60 * 6
calc_delay_UpTo360(row) ==
    IF /\ ~row.cancelled
       /\ DelayMins(row) # NaN
       /\ DelayMins(row) > 15
       /\ DelayMins(row) <= 60 * 6
    THEN DelayMins(row)
    ELSE 0

\* DELAY: delay_mins.where(mask, 0.0)
calc_delay(row) ==
    IF /\ ~row.cancelled
       /\ DelayMins(row) # NaN
       /\ DelayMins(row) > 15
       /\ DelayMins(row) < 60 * 6
    THEN DelayMins(row)
    ELSE 0

\* np.where(~cancelled, (actualarrival - actualdeparture).fillna(0), 0), in minutes
FlightMinutes(row) ==
    IF row.cancelled THEN 0
    ELSE IF row.actualarrival = NaT \/ row.actualdeparture = NaT THEN 0
         ELSE row.actualarrival - row.actualdeparture

\* one row of flights_df after calculate_flight_attributes and the sumdelay copy
calculate_flight_attributes(row) ==
    [aircraftregistration |-> row.aircraftregistration,
     date |-> build_dateCode(row.scheduleddeparture),
     flighthours |-> FlightMinutes(row),
     takeoffs |-> IF row.cancelled THEN 0 ELSE 1,
     DELAY |-> calc_delay(row),
     CN |-> row.cancelled,
     DY |-> IF calc_delay(row) > 0 THEN 1 ELSE 0,
     sumdelay |-> calc_delay(row)]

\* the (date, aircraftregistration) keys of a frame
GrainKeys(df) == {<<df[i].date, df[i].aircraftregistration>> : i \in DOMAIN df}

\* a grouping by date alone
Group_ByDate(df, key) == {i \in DOMAIN df : df[i].date = key[1]}

\* the rows of one group
Group(df, key) ==
    {i \in DOMAIN df : df[i].date = key[1] /\ df[i].aircraftregistration = key[2]}

\* groupby(["date", "aircraftregistration"]).agg(...) of the derived flights
AggFlights(df) ==
    {[date |-> key[1], aircraftregistration |-> key[2],
      flighthours |-> SumOver(Group(df, key), [i \in DOMAIN df |-> df[i].flighthours]),
      takeoffs |-> SumOver(Group(df, key), [i \in DOMAIN df |-> df[i].takeoffs]),
      delays |-> SumOver(Group(df, key), [i \in DOMAIN df |-> df[i].DY]),
      cancellations |-> SumOver(Group(df, key), [i \in DOMAIN df |-> IF df[i].CN THEN 1 ELSE 0]),
      delayduration |-> SumOver(Group(df, key), [i \in DOMAIN df |-> df[i].sumdelay])] :
        key \in GrainKeys(df)}

TransformFlights ==
    /\ pc = "flights"
    /\ flights_df' = [i \in DOMAIN flights_df |-> calculate_flight_attributes(flights_df[i])]
    /\ agg_flights' = AggFlights(flights_df')
    /\ pc' = "maint"
    /\ UNCHANGED <<maint_df, reports_df, lookup_reporters_df, aircrafts, airports,
                   gate_flights, extracted_data, agg_maint, time_df, daily_flight_stats,
                   total_maint_reports, overlapping_flights_csv, invalid_reports_csv>>
    /\ UNCHANGED runVars

\* diff_days, in minutes: NaN when a timestamp is missing
DiffDays(row) ==
    IF row.scheduledarrival = NaT \/ row.scheduleddeparture = NaT THEN NaN
    ELSE row.scheduledarrival - row.scheduleddeparture

\* calc_maintenance_time whose TOSU forgets the negation of programmed
calc_maintenance_time_SameMask(row) ==
    [TOSS |-> IF row.programmed THEN DiffDays(row) ELSE 0,
     TOSU |-> IF row.programmed THEN DiffDays(row) ELSE 0]

\* TOSS and TOSU: diff_days.where(programmed, 0.0), diff_days.where(~programmed, 0.0)
calc_maintenance_time(row) ==
    [TOSS |-> IF row.programmed THEN DiffDays(row) ELSE 0,
     TOSU |-> IF ~row.programmed THEN DiffDays(row) ELSE 0]

\* one row of maint_df after calculate_maintenance_attributes
calculate_maintenance_attributes(row) ==
    [aircraftregistration |-> row.aircraftregistration,
     date |-> build_dateCode(row.scheduleddeparture),
     TOSS |-> calc_maintenance_time(row).TOSS,
     TOSU |-> calc_maintenance_time(row).TOSU]

\* what sum() adds for a value: nothing for NaN
SkipNa(x) == IF x = NaN THEN 0 ELSE x

\* groupby(["date", "aircraftregistration"]).agg(ADOSS=sum(TOSS), ADOSU=sum(TOSU))
AggMaint(df) ==
    {[date |-> key[1], aircraftregistration |-> key[2],
      ADOSS |-> SumOver(Group(df, key), [i \in DOMAIN df |-> SkipNa(df[i].TOSS)]),
      ADOSU |-> SumOver(Group(df, key), [i \in DOMAIN df |-> SkipNa(df[i].TOSU)])] :
        key \in GrainKeys(df)}

TransformMaint ==
    /\ pc = "maint"
    /\ maint_df' = [i \in DOMAIN maint_df |-> calculate_maintenance_attributes(maint_df[i])]
    /\ agg_maint' = AggMaint(maint_df')
    /\ pc' = "reports"
    /\ UNCHANGED <<flights_df, reports_df, lookup_reporters_df, aircrafts, airports,
                   gate_flights, extracted_data, agg_flights, time_df, daily_flight_stats,
                   total_maint_reports, overlapping_flights_csv, invalid_reports_csv>>
    /\ UNCHANGED runVars

\* one row of reports_df after transform_reports
transform_reports(row) ==
    [aircraftregistration |-> row.aircraftregistration,
     reporteurclass |-> row.reporteurclass,
     reporteurid |-> row.reporteurid,
     date |-> build_dateCode(row.reportingdate),
     pilotreports |-> IF row.reporteurclass = PIREP THEN 1 ELSE 0,
     maintenancereports |-> IF row.reporteurclass = MAREP THEN 1 ELSE 0]

TransformReports ==
    /\ pc = "reports"
    /\ reports_df' = [i \in DOMAIN reports_df |-> transform_reports(reports_df[i])]
    /\ pc' = "merge"
    /\ UNCHANGED <<flights_df, maint_df, lookup_reporters_df, aircrafts, airports,
                   gate_flights, extracted_data, agg_flights, agg_maint, time_df,
                   daily_flight_stats, total_maint_reports, overlapping_flights_csv,
                   invalid_reports_csv>>
    /\ UNCHANGED runVars

----------------------------------------------------------------------------
(* Reconciler *)

\* df["date"] = pd.to_datetime(df["date"], errors="coerce") on a grouped frame
DatesToDatetime(rows) == {[r EXCEPT !.date = to_datetime(r.date)] : r \in rows}

\* set(agg_flights_df["date"].dt.year.dropna().unique())
ValidYears(aggF) == {YearOf(r.date) : r \in {x \in aggF : x.date # NaT}}

\* YearFiltered that keeps every year
YearFiltered_Every(rows, years) == rows

\* df[df["date"].dt.year.isin(valid_years)]
YearFiltered(rows, years) == {r \in rows : YearOf(r.date) \in years}

\* time_df: the sorted unique dates with their month code and year
TimeDf(dates) ==
    [k \in 1..Cardinality(dates) |->
        [date |-> SortAsc(dates)[k],
         month |-> build_monthCode(SortAsc(dates)[k]),
         year |-> YearOf(SortAsc(dates)[k])]]

\* techlog_proj: the filtered reports grouped by (date, aircraft)
TechlogProj(df) ==
    {[date |-> key[1], aircraftregistration |-> key[2],
      pilotreports |-> SumOver(Group(df, key), [i \in DOMAIN df |-> df[i].pilotreports]),
      maintenancereports |->
          SumOver(Group(df, key), [i \in DOMAIN df |-> df[i].maintenancereports])] :
        key \in GrainKeys(df)}

SameGrain(l, r) == l.date = r.date /\ l.aircraftregistration = r.aircraftregistration

\* OuterMerge as how="inner"
OuterMerge_Inner(L, R, LCols, RCols) ==
    {l @@ r : <<l, r>> \in {p \in L \X R : SameGrain(p[1], p[2])}}

\* L.merge(R, on=["date", "aircraftregistration"], how="outer")
OuterMerge(L, R, LCols, RCols) ==
    {l @@ r : <<l, r>> \in {p \in L \X R : SameGrain(p[1], p[2])}}
    \cup {l @@ [c \in RCols |-> NaN] : l \in {x \in L : \A r \in R : ~SameGrain(x, r)}}
    \cup {r @@ [c \in LCols |-> NaN] : r \in {x \in R : \A l \in L : ~SameGrain(l, x)}}

FlightCols == {"flighthours", "takeoffs", "delays", "cancellations", "delayduration"}
ReportCols == {"pilotreports", "maintenancereports"}
MaintCols == {"ADOSS", "ADOSU"}

\* FillNa that fills nothing
FillNa_Nothing(rows, numeric_cols) == rows

\* daily_flight_stats[numeric_cols].fillna(0)
FillNa(rows, numeric_cols) ==
    {[c \in DOMAIN r |-> IF c \in numeric_cols /\ r[c] = NaN THEN 0 ELSE r[c]] : r \in rows}

\* the two outer merges and the zero fill of merge_flights_maint_log
DailyFlightStats(aggF, techlog, aggM) ==
    FillNa(OuterMerge(OuterMerge(aggF, techlog, FlightCols, ReportCols), aggM,
                      FlightCols \cup ReportCols, MaintCols),
           FlightCols \cup ReportCols \cup MaintCols)

\* the index labels of the reports left by the year filter
TechlogFiltered(df, years) == {i \in DOMAIN df : YearOf(df[i].date) \in years}

MergeFlightsMaintLog ==
    /\ pc = "merge"
    /\ agg_flights' = DatesToDatetime(agg_flights)
    /\ agg_maint' = DatesToDatetime(agg_maint)
    /\ reports_df' = [i \in DOMAIN reports_df |->
                         [reports_df[i] EXCEPT !.date = to_datetime(reports_df[i].date)]]
    /\ LET valid_years == ValidYears(agg_flights')
           agg_flights_filtered == YearFiltered(agg_flights', valid_years)
           agg_maint_filtered == YearFiltered(agg_maint', valid_years)
           kept == TechlogFiltered(reports_df', valid_years)
           techlog_filtered == [i \in kept |-> reports_df'[i]]
           all_dates == {r.date : r \in agg_flights_filtered}
                        \cup {r.date : r \in agg_maint_filtered}
                        \cup {techlog_filtered[i].date : i \in kept}
       IN IF all_dates = {}
          THEN \* DataFrame([], columns=["date"]) has no datetime column: .dt raises
               /\ pc' = "raised"
               /\ raised' = "transform"
               /\ UNCHANGED <<time_df, daily_flight_stats>>
          ELSE /\ time_df' = TimeDf(all_dates)
               /\ daily_flight_stats' = DailyFlightStats(agg_flights_filtered,
                                                         TechlogProj(techlog_filtered),
                                                         agg_maint_filtered)
               /\ pc' = "total"
               /\ raised' = raised
    /\ UNCHANGED <<flights_df, maint_df, lookup_reporters_df, aircrafts, airports,
                   gate_flights, extracted_data, total_maint_reports,
                   overlapping_flights_csv, invalid_reports_csv, dw, dw_committed,
                   progress>>

\* agg_flights_df.groupby("aircraftregistration") summing takeoffs and flighthours
GroupedFlights(aggF) ==
    {[aircraftregistration |-> a,
      takeoffs |-> SumOver({r \in aggF : r.aircraftregistration = a},
                           [r \in aggF |-> r.takeoffs]),
      flighthours |-> SumOver({r \in aggF : r.aircraftregistration = a},
                              [r \in aggF |-> r.flighthours])] :
        a \in {r.aircraftregistration : r \in aggF}}

\* the MAREP reports dated within time_df
MarepInTime(df, time) ==
    {i \in DOMAIN df :
        /\ df[i].reporteurclass = MAREP
        /\ \E k \in DOMAIN time : time[k].date = df[i].date}

\* groupby(["reporteurid", "aircraftregistration"]).size()
ReportCounts(df, rows) ==
    {[reporteurid |-> key[1], aircraftregistration |-> key[2],
      count |-> Cardinality({i \in rows : /\ df[i].reporteurid = key[1]
                                          /\ df[i].aircraftregistration = key[2]})] :
        key \in {<<df[i].reporteurid, df[i].aircraftregistration>> : i \in rows}}

\* counts.merge(lookup_df[["reporteurid", "airport"]], on="reporteurid", how="left"):
\* one row per matching lookup row (lk is its position), one NaN row without a match
join_airports_to_maint(counts, lookup) ==
    {[reporteurid |-> c.reporteurid, aircraftregistration |-> c.aircraftregistration,
      count |-> c.count, airport |-> lookup[k].airport, lk |-> k] :
        <<c, k>> \in {p \in counts \X DOMAIN lookup : lookup[p[2]].reporteurid = p[1].reporteurid}}
    \cup {[reporteurid |-> c.reporteurid, aircraftregistration |-> c.aircraftregistration,
           count |-> c.count, airport |-> NoReg, lk |-> 0] :
            c \in {x \in counts : \A k \in DOMAIN lookup : lookup[k].reporteurid # x.reporteurid}}

\* groupby(["aircraftregistration", "airport"]).agg(count=sum): NaN airports drop out
CountsByAirport(joined) ==
    {[aircraftregistration |-> key[1], airport |-> key[2],
      count |-> SumOver({j \in joined : j.aircraftregistration = key[1] /\ j.airport = key[2]},
                        [j \in joined |-> j.count])] :
        key \in {<<j.aircraftregistration, j.airport>> : j \in {x \in joined : x.airport # NoReg}}}

\* the merge with how="inner": only the aircraft that grouped_flights has
LeftMergeFlights_Inner(totals, grouped) ==
    {[aircraftregistration |-> t.aircraftregistration, airportcode |-> t.airport,
      reports |-> t.count,
      takeoffs |-> (CHOOSE g \in grouped :
                       g.aircraftregistration = t.aircraftregistration).takeoffs,
      flighthours |-> (CHOOSE g \in grouped :
                          g.aircraftregistration = t.aircraftregistration).flighthours] :
        t \in {x \in totals : \E g \in grouped :
                                g.aircraftregistration = x.aircraftregistration}}

\* total_maint_reports.merge(grouped_flights, on="aircraftregistration", how="left"),
\* with airport and count renamed to airportcode and reports
LeftMergeFlights(totals, grouped) ==
    {[aircraftregistration |-> t.aircraftregistration, airportcode |-> t.airport,
      reports |-> t.count,
      takeoffs |-> IF \E g \in grouped : g.aircraftregistration = t.aircraftregistration
                   THEN (CHOOSE g \in grouped :
                            g.aircraftregistration = t.aircraftregistration).takeoffs
                   ELSE NaN,
      flighthours |-> IF \E g \in grouped : g.aircraftregistration = t.aircraftregistration
                      THEN (CHOOSE g \in grouped :
                               g.aircraftregistration = t.aircraftregistration).flighthours
                      ELSE NaN] :
        t \in totals}

create_total_maint_reports(aggF, df, lookup, time) ==
    LeftMergeFlights(
        CountsByAirport(join_airports_to_maint(ReportCounts(df, MarepInTime(df, time)), lookup)),
        GroupedFlights(aggF))

CreateTotalMaintReports ==
    /\ pc = "total"
    /\ total_maint_reports' =
           create_total_maint_reports(agg_flights, reports_df, lookup_reporters_df, time_df)
    /\ pc' = "done"
    /\ UNCHANGED <<flights_df, maint_df, reports_df, lookup_reporters_df, aircrafts,
                   airports, gate_flights, extracted_data, agg_flights, agg_maint, time_df,
                   daily_flight_stats, overlapping_flights_csv, invalid_reports_csv>>
    /\ UNCHANGED runVars

----------------------------------------------------------------------------
(* Warehouse Loader: load() of src/load.py on the batches transform() returned *)

NoError == "none"

\* pygrametl's lookup() result for a member that is not in the dimension
None == 0

\* DW(create=True): the five tables, empty
EmptyDW ==
    [Aircrafts |-> {}, Date |-> {}, Airports |-> {},
     DailyAircraftStats |-> {}, TotalMaintenanceReports |-> {}]

\* dimension_tables of load(), in order, with the table behind f"{name}_dim"
dimension_tables == <<"aircraft", "date", "airport">>
DimTable(name) ==
    CASE name = "aircraft" -> "Aircrafts"
      [] name = "date" -> "Date"
      [] name = "airport" -> "Airports"

\* CachedDimension.lookup(row): the key of the member with these lookup attributes
Lookup(table, key) ==
    IF \E t \in table : t.key = key THEN (CHOOSE t \in table : t.key = key).id ELSE None

\* CachedDimension.ensure(row): insert the member under the next key unless it is there
Ensure(table, key) ==
    IF Lookup(table, key) # None THEN table
    ELSE table \cup {[id |-> Cardinality(table) + 1, key |-> key]}

RECURSIVE EnsureAll(_, _, _)
\* the loop of load_dimensions over the first k rows of a dataset
EnsureAll(table, rows, k) ==
    IF k = 0 THEN table ELSE Ensure(EnsureAll(table, rows, k - 1), rows[k])

\* the lookup attributes of the rows of data[name], in the dataset's order
DimRows(name, order) ==
    CASE name = "aircraft" -> order
      [] name = "date" -> [k \in DOMAIN time_df |-> time_df[k].date]
      [] name = "airport" -> [k \in DOMAIN airports |-> airports[k].airportcode]

\* where load() goes when load_dimensions raises, if it swallowed the exception
DimensionsFailed_Swallowed == "commit_dimensions"

\* where load() goes when load_dimensions raises: "raise  # stop pipeline"
DimensionsFailed == "raised"

\* the position of load() at which dimension name is loaded, and the one after it
DimPc(name) ==
    CASE name = "aircraft" -> "done"
      [] name = "date" -> "load_date"
      [] name = "airport" -> "load_airport"
AfterDim(name) ==
    CASE name = "aircraft" -> "load_date"
      [] name = "date" -> "load_airport"
      [] name = "airport" -> "commit_dimensions"

\* one round of the loop of load_dimensions: table.ensure(row) for every row of the
\* dataset, until one of them raises (k rows were ensured before it)
LoadDimensions ==
    /\ \E name \in {dimension_tables[n] : n \in DOMAIN dimension_tables} :
         /\ pc = DimPc(name)
         /\ \E order \in Orderings(aircrafts) :
              LET rows == DimRows(name, order)
              IN \E k \in 0..Len(rows) :
                   /\ dw' = [dw EXCEPT ![DimTable(name)] = EnsureAll(@, rows, k)]
                   /\ IF k = Len(rows)
                      THEN pc' = AfterDim(name) /\ raised' = raised
                      ELSE pc' = DimensionsFailed /\ raised' = "dimensions"
    /\ UNCHANGED <<flights_df, maint_df, reports_df, lookup_reporters_df, aircrafts,
                   airports, gate_flights, extracted_data, agg_flights, agg_maint, time_df,
                   daily_flight_stats, total_maint_reports, overlapping_flights_csv,
                   invalid_reports_csv, dw_committed, progress>>

\* dw.conn_pygrametl.commit() after the dimensions
CommitDimensions ==
    /\ pc = "commit_dimensions"
    /\ dw_committed' = dw
    /\ pc' = "load_daily_aircraft"
    /\ UNCHANGED <<flights_df, maint_df, reports_df, lookup_reporters_df, aircrafts,
                   airports, gate_flights, extracted_data, agg_flights, agg_maint, time_df,
                   daily_flight_stats, total_maint_reports, overlapping_flights_csv,
                   invalid_reports_csv, dw, raised, progress>>

\* load_daily_aircraft without "if aircraftid is not None and dateid is not None"
DailyFact_Unchecked(r) ==
    {[dateid |-> Lookup(dw.Date, r.date),
      aircraftid |-> Lookup(dw.Aircrafts, r.aircraftregistration),
      flighthours |-> r.flighthours, takeoffs |-> r.takeoffs,
      ADOSS |-> r.ADOSS, ADOSU |-> r.ADOSU, delays |-> r.delays,
      cancellations |-> r.cancellations, delayduration |-> r.delayduration,
      pilotreports |-> r.pilotreports,
      maintenancereports |-> r.maintenancereports]}

\* the row load_daily_aircraft inserts for r, or none when a lookup finds nothing
DailyFact(r) ==
    LET aircraftid == Lookup(dw.Aircrafts, r.aircraftregistration)
        dateid == Lookup(dw.Date, r.date)
    IN IF aircraftid # None /\ dateid # None
       THEN {[dateid |-> dateid, aircraftid |-> aircraftid,
              flighthours |-> r.flighthours, takeoffs |-> r.takeoffs,
              ADOSS |-> r.ADOSS, ADOSU |-> r.ADOSU, delays |-> r.delays,
              cancellations |-> r.cancellations, delayduration |-> r.delayduration,
              pilotreports |-> r.pilotreports,
              maintenancereports |-> r.maintenancereports]}
       ELSE {}

\* the row load_total_maintenance inserts for t, or none when a lookup finds nothing
TotalFact(t) ==
    LET aircraftid == Lookup(dw.Aircrafts, t.aircraftregistration)
        airportid == Lookup(dw.Airports, t.airportcode)
    IN IF aircraftid # None /\ airportid # None
       THEN {[airportid |-> airportid, aircraftid |-> aircraftid, reports |-> t.reports,
              takeoffs |-> t.takeoffs, flighthours |-> t.flighthours]}
       ELSE {}

\* AircraftLookups that calls ensure(row) where the loaders call lookup(row)
AircraftLookups_Ensure(tables, regs) ==
    [tables EXCEPT !.Aircrafts =
        EnsureAll(@, CHOOSE order \in Orderings(regs) : TRUE, Cardinality(regs))]

\* the warehouse after dw.aircraft_dim.lookup(row) for rows of these registrations:
\* lookup() reads the dimension and inserts nothing
AircraftLookups(tables, regs) == tables

\* load_daily_aircraft: the rows reached before an insert raised, or all of them; only
\* table.insert(row) is inside the try, and it is called for the rows both lookups find
LoadDailyAircraft ==
    /\ pc = "load_daily_aircraft"
    /\ \E reached \in SUBSET daily_flight_stats :
         /\ (reached # daily_flight_stats) =>
                \E row \in daily_flight_stats \ reached : DailyFact(row) # {}
         /\ dw' = [AircraftLookups(dw, {r.aircraftregistration : r \in reached})
                      EXCEPT !.DailyAircraftStats = @ \cup UNION {DailyFact(r) : r \in reached}]
         /\ IF reached = daily_flight_stats
            THEN pc' = "load_total_maintenance" /\ raised' = raised
            ELSE pc' = "raised" /\ raised' = "facts"
    /\ UNCHANGED <<flights_df, maint_df, reports_df, lookup_reporters_df, aircrafts,
                   airports, gate_flights, extracted_data, agg_flights, agg_maint, time_df,
                   daily_flight_stats, total_maint_reports, overlapping_flights_csv,
                   invalid_reports_csv, dw_committed, progress>>

\* load_total_maintenance: the rows reached before an insert raised, or all of them
LoadTotalMaintenance ==
    /\ pc = "load_total_maintenance"
    /\ \E reached \in SUBSET total_maint_reports :
         /\ (reached # total_maint_reports) =>
                \E row \in total_maint_reports \ reached : TotalFact(row) # {}
         /\ dw' = [dw EXCEPT !.TotalMaintenanceReports =
                                 @ \cup UNION {TotalFact(t) : t \in reached}]
         /\ IF reached = total_maint_reports
            THEN pc' = "commit_facts" /\ raised' = raised
            ELSE pc' = "raised" /\ raised' = "facts"
    /\ UNCHANGED <<flights_df, maint_df, reports_df, lookup_reporters_df, aircrafts,
                   airports, gate_flights, extracted_data, agg_flights, agg_maint, time_df,
                   daily_flight_stats, total_maint_reports, overlapping_flights_csv,
                   invalid_reports_csv, dw_committed, progress>>

\* dw.conn_pygrametl.commit() after the fact tables
CommitFacts ==
    /\ pc = "commit_facts"
    /\ dw_committed' = dw
    /\ pc' = "loaded"
    /\ UNCHANGED <<flights_df, maint_df, reports_df, lookup_reporters_df, aircrafts,
                   airports, gate_flights, extracted_data, agg_flights, agg_maint, time_df,
                   daily_flight_stats, total_maint_reports, overlapping_flights_csv,
                   invalid_reports_csv, dw, raised, progress>>

----------------------------------------------------------------------------
(* The driver of src/etl_control_flow.py, which runs the stages of src/src/: *)
(* each source is an iterator read by the step that consumes it, and each    *)
(* dimension is loaded and committed as soon as its own source is ready      *)

\* the five source batches, and the transformation steps the driver calls
Sources == {"lookup_aircrafts", "lookup_reporters", "flights", "reports", "maintenance"}
Steps == {"transform_aircrafts", "transform_reporter_lookup", "clean_flights",
          "clean_reports", "valid_dates", "get_date_dim", "get_facts"}

NoProgress == [extracted |-> {}, transformed |-> {}]

\* progress once the batches read and the steps started by one statement are added
Did(read, started) ==
    [extracted |-> progress.extracted \cup read,
     transformed |-> progress.transformed \cup started]

\* an exception leaves the driver: nothing catches it, the run ends
Raise(stage) == pc' = "raised" /\ raised' = stage

\* lookup_df[["reporteurid", "airportcode"]].drop_duplicates() of src/src/transform.py:
\* the rows keep the reporter next to the renamed airport column
etl_transform_reporter_lookup(lookup) ==
    drop_duplicates([k \in 1..Len(lookup) |->
                        [reporteurid |-> lookup[k].reporteurid,
                         airportcode |-> lookup[k].airport]])

\* load_aircrafts, load_airports, load_dates: table.ensure(row) for every row and then
\* the commit, or the exception of the row (k rows before it) whose ensure raises
EtlLoadDimension(table, rows, stage, next) ==
    \E k \in 0..Len(rows) :
        /\ dw' = [dw EXCEPT ![table] = EnsureAll(@, rows, k)]
        /\ IF k = Len(rows)
           THEN dw_committed' = dw' /\ pc' = next /\ raised' = raised
           ELSE dw_committed' = dw_committed /\ Raise(stage)

\* DW.__init__ with create=False: connect to the file as it is
CreateDW_Connect(tables) == tables

\* DW.__init__ with create=True: os.remove the file, then CREATE TABLE the five tables
CreateDW(tables) == EmptyDW

\* dw = DW(create=True)
EtlCreateDW ==
    /\ pc = "etl_create"
    /\ dw' = CreateDW(dw)
    /\ dw_committed' = CreateDW(dw_committed)
    /\ pc' = "etl_aircrafts"
    /\ UNCHANGED <<flights_df, maint_df, reports_df, lookup_reporters_df, aircrafts,
                   airports, gate_flights, extracted_data, agg_flights, agg_maint, time_df,
                   daily_flight_stats, total_maint_reports, overlapping_flights_csv,
                   invalid_reports_csv, raised, progress>>

\* load.load_aircrafts(dw, transform.transform_aircrafts(extract.extract_aircraftlookup()))
EtlLoadAircrafts ==
    /\ pc = "etl_aircrafts"
    /\ \E order \in Orderings(aircrafts) :
         EtlLoadDimension("Aircrafts", order, "load_aircrafts", "etl_airports")
    /\ progress' = Did({"lookup_aircrafts"}, {"transform_aircrafts"})
    /\ UNCHANGED <<flights_df, maint_df, reports_df, lookup_reporters_df, aircrafts,
                   airports, gate_flights, extracted_data, agg_flights, agg_maint, time_df,
                   daily_flight_stats, total_maint_reports, overlapping_flights_csv,
                   invalid_reports_csv>>

\* load.load_airports(dw, transform.transform_reporter_lookup(extract.extract_reporterslookup()))
EtlLoadAirports ==
    /\ pc = "etl_airports"
    /\ airports' = etl_transform_reporter_lookup(lookup_reporters_df)
    /\ EtlLoadDimension("Airports", [k \in DOMAIN airports' |-> airports'[k].airportcode],
                        "load_airports", "etl_flights")
    /\ progress' = Did({"lookup_reporters"}, {"transform_reporter_lookup"})
    /\ UNCHANGED <<flights_df, maint_df, reports_df, lookup_reporters_df, aircrafts,
                   gate_flights, extracted_data, agg_flights, agg_maint, time_df,
                   daily_flight_stats, total_maint_reports, overlapping_flights_csv,
                   invalid_reports_csv>>

\* pd.DataFrame(list(it)) of a source that yields no row is a frame without columns
HasColumns(batch) == DOMAIN batch # {}

\* clean_flights(extract_flights()): BR-1 and BR-2 on the frame read from the source
EtlCleanFlights ==
    /\ pc = "etl_flights"
    /\ progress' = Did({"flights"}, {"clean_flights"})
    /\ IF ~HasColumns(extracted_data.flights)
       THEN \* flights_df["cancelled"]: KeyError
            /\ Raise("clean_flights")
            /\ UNCHANGED <<flights_df, gate_flights, overlapping_flights_csv>>
       ELSE LET df == check_rule_1_actualarrival_after_departure(extracted_data.flights)
            IN /\ \E s \in SortedOrders(df) :
                    LET P == OverlapPositions(df, s)
                        indices_to_remove == {s[k] : k \in P}
                        overlapping_rows == RowsAt(df, s, P, Cardinality(NonCancelled(df)))
                    IN IF overlapping_rows # <<>>
                       THEN /\ overlapping_flights_csv' \in
                                   AppendCsv(overlapping_flights_csv, overlapping_rows)
                            /\ flights_df' = Drop(df, indices_to_remove)
                       ELSE /\ overlapping_flights_csv' = overlapping_flights_csv
                            /\ flights_df' = df
               /\ gate_flights' = flights_df'
               /\ pc' = "etl_reports"
               /\ raised' = raised
    /\ UNCHANGED <<maint_df, reports_df, lookup_reporters_df, aircrafts, airports,
                   extracted_data, agg_flights, agg_maint, time_df, daily_flight_stats,
                   total_maint_reports, invalid_reports_csv, dw, dw_committed>>

\* reports_df.loc[valid_idx].reset_index(drop=True)
ResetIndex(df, keep) == [k \in 1..Cardinality(keep) |-> df[SortAsc(keep)[k]]]

\* clean_reports(extract_reports(), dw): BR-3 against the aircraft dimension of dw
EtlCleanReports ==
    /\ pc = "etl_reports"
    /\ progress' = Did({"reports"}, {"clean_reports"})
    /\ LET df == extracted_data.reports
           valid_idx == {i \in DOMAIN df :
                            Lookup(dw.Aircrafts, df[i].aircraftregistration) # None}
           s == IndexOrder(df)
           invalid_rows == RowsAt(df, s, {k \in DOMAIN s : s[k] \notin valid_idx},
                                  Cardinality(DOMAIN df))
       IN IF ~HasColumns(df)
          THEN \* "No reports found in source.": the frame without columns is returned
               /\ reports_df' = df
               /\ invalid_reports_csv' = invalid_reports_csv
               /\ pc' = "etl_valid_dates"
               /\ raised' = raised
          ELSE IF \E i \in DOMAIN df : df[i].aircraftregistration = NoReg
          THEN \* assert reg is not None
               /\ Raise("clean_reports")
               /\ UNCHANGED <<reports_df, invalid_reports_csv>>
          ELSE IF invalid_rows = <<>>
          THEN /\ reports_df' = ResetIndex(df, valid_idx)
               /\ invalid_reports_csv' = invalid_reports_csv
               /\ pc' = "etl_valid_dates"
               /\ raised' = raised
          ELSE \* to_csv(mode="a") outside any try: it appends, or its exception ends the run
               \/ /\ reports_df' = ResetIndex(df, valid_idx)
                  /\ invalid_reports_csv' = invalid_reports_csv \o invalid_rows
                  /\ pc' = "etl_valid_dates"
                  /\ raised' = raised
               \/ /\ Raise("clean_reports")
                  /\ UNCHANGED <<reports_df, invalid_reports_csv>>
    /\ UNCHANGED <<flights_df, maint_df, lookup_reporters_df, aircrafts, airports,
                   gate_flights, extracted_data, agg_flights, agg_maint, time_df,
                   daily_flight_stats, total_maint_reports, overlapping_flights_csv,
                   dw, dw_committed>>

\* df["date"] = safe_to_datetime(df["scheduleddeparture"].apply(build_dateCode))
DepartureDates(df) ==
    [i \in DOMAIN df |->
        df[i] @@ [date |-> to_datetime(build_dateCode(df[i].scheduleddeparture))]]

\* reports_df["date"] = safe_to_datetime(reports_df["reportingdate"])
ReportingDates(df) == [i \in DOMAIN df |-> df[i] @@ [date |-> df[i].reportingdate]]

\* df[df["date"].dt.year.isin(valid_years)].copy()
InYears(df, years) == [i \in {j \in DOMAIN df : YearOf(df[j].date) \in years} |-> df[i]]

\* maint_it = extract_maint(); valid_dates(clean_flights_df, clean_reports_df, maint_it, dw)
EtlValidDates ==
    /\ pc = "etl_valid_dates"
    /\ progress' = Did({"maintenance"}, {"valid_dates"})
    /\ IF ~HasColumns(extracted_data.maintenance) \/ ~HasColumns(extracted_data.reports)
       THEN \* maint_df["scheduleddeparture"], reports_df["reportingdate"]: KeyError
            /\ Raise("valid_dates")
            /\ UNCHANGED <<flights_df, maint_df, reports_df>>
       ELSE LET flights == DepartureDates(flights_df)
                maint == DepartureDates(extracted_data.maintenance)
                reports == ReportingDates(reports_df)
                valid_years == {YearOf(flights[i].date) :
                                   i \in {j \in DOMAIN flights : flights[j].date # NaT}}
            IN /\ flights_df' = InYears(flights, valid_years)
               /\ maint_df' = InYears(maint, valid_years)
               /\ reports_df' = InYears(reports, valid_years)
               /\ pc' = "etl_dates"
               /\ raised' = raised
    /\ UNCHANGED <<lookup_reporters_df, aircrafts, airports, gate_flights, extracted_data,
                   agg_flights, agg_maint, time_df, daily_flight_stats,
                   total_maint_reports, overlapping_flights_csv, invalid_reports_csv,
                   dw, dw_committed>>

\* the date column of a frame without its missing values
DatesOf(df) == {df[i].date : i \in DOMAIN df} \ {NaT}

\* load.load_dates(dw, transform.get_date_dim(flights_df, reports_df, maint_df))
EtlLoadDates ==
    /\ pc = "etl_dates"
    /\ progress' = Did({}, {"get_date_dim"})
    /\ LET all_dates == DatesOf(flights_df) \cup DatesOf(maint_df) \cup DatesOf(reports_df)
       IN IF all_dates = {}
          THEN \* DataFrame([], columns=["date"]) has no datetime column: .dt raises
               /\ Raise("get_date_dim")
               /\ UNCHANGED <<time_df, dw, dw_committed>>
          ELSE /\ time_df' = TimeDf(all_dates)
               /\ EtlLoadDimension("Date", [k \in DOMAIN time_df' |-> time_df'[k].date],
                                   "load_dates", "etl_facts")
    /\ UNCHANGED <<flights_df, maint_df, reports_df, lookup_reporters_df, aircrafts,
                   airports, gate_flights, extracted_data, agg_flights, agg_maint,
                   daily_flight_stats, total_maint_reports, overlapping_flights_csv,
                   invalid_reports_csv>>

\* create_total_maint_reports of src/src/transform.py: every MAREP report is counted,
\* against the reporter lookup read again from its file
etl_create_total_maint_reports(aggF, df, lookup) ==
    LeftMergeFlights(
        CountsByAirport(
            join_airports_to_maint(
                ReportCounts(df, {i \in DOMAIN df : df[i].reporteurclass = MAREP}), lookup)),
        GroupedFlights(aggF))

\* transform.get_facts(flights_df, reports_df, maint_df, extract.extract_reporterslookup()):
\* the three transforms, then the outer merges on the date codes and the totals
EtlGetFacts ==
    /\ pc = "etl_facts"
    /\ progress' = Did({"lookup_reporters"}, {"get_facts"})
    /\ flights_df' = [i \in DOMAIN flights_df |-> calculate_flight_attributes(flights_df[i])]
    /\ agg_flights' = AggFlights(flights_df')
    /\ maint_df' = [i \in DOMAIN maint_df |-> calculate_maintenance_attributes(maint_df[i])]
    /\ agg_maint' = AggMaint(maint_df')
    /\ reports_df' = [i \in DOMAIN reports_df |-> transform_reports(reports_df[i])]
    /\ daily_flight_stats' = DailyFlightStats(agg_flights', TechlogProj(reports_df'), agg_maint')
    /\ total_maint_reports' =
           etl_create_total_maint_reports(agg_flights', reports_df', lookup_reporters_df)
    /\ pc' = "etl_load_facts"
    /\ UNCHANGED <<lookup_reporters_df, aircrafts, airports, gate_flights, extracted_data,
                   time_df, overlapping_flights_csv, invalid_reports_csv, dw, dw_committed,
                   raised>>

\* load_daily_aircraft on a row whose date is still a date code: the DATE column of the
\* dimension is compared with the day the code stands for
EtlDailyFact(r) == DailyFact([r EXCEPT !.date = to_datetime(r.date)])

\* load.load_facts(dw, facts): both fact tables and then the commit, or the exception
\* of the insert that raises (the rows before it stay uncommitted)
EtlLoadFacts ==
    /\ pc = "etl_load_facts"
    /\ \E daily \in SUBSET daily_flight_stats :
         \E total \in IF daily = daily_flight_stats THEN SUBSET total_maint_reports ELSE {{}} :
            /\ dw' = [dw EXCEPT
                        !.DailyAircraftStats = @ \cup UNION {EtlDailyFact(r) : r \in daily},
                        !.TotalMaintenanceReports = @ \cup UNION {TotalFact(t) : t \in total}]
            /\ IF daily = daily_flight_stats /\ total = total_maint_reports
               THEN dw_committed' = dw' /\ pc' = "etl_close" /\ raised' = raised
               ELSE dw_committed' = dw_committed /\ Raise("load_facts")
    /\ UNCHANGED <<flights_df, maint_df, reports_df, lookup_reporters_df, aircrafts,
                   airports, gate_flights, extracted_data, agg_flights, agg_maint, time_df,
                   daily_flight_stats, total_maint_reports, overlapping_flights_csv,
                   invalid_reports_csv, progress>>

\* dw.close(): commit and close the connection
EtlClose ==
    /\ pc = "etl_close"
    /\ dw_committed' = dw
    /\ pc' = "closed"
    /\ UNCHANGED <<flights_df, maint_df, reports_df, lookup_reporters_df, aircrafts,
                   airports, gate_flights, extracted_data, agg_flights, agg_maint, time_df,
                   daily_flight_stats, total_maint_reports, overlapping_flights_csv,
                   invalid_reports_csv, dw, raised, progress>>

----------------------------------------------------------------------------
(* Inputs *)

\* three days: two in years that have flights, DayC in a year that has none
DayA == Stamp(2022, 3, 5, 0)
DayB == Stamp(2023, 11, 1, 0)
DayC == Stamp(2021, 7, 9, 0)

Empty == [i \in {} |-> 0]

FlightRec(r, c, d, a, sd, sa) ==
    [aircraftregistration |-> r, cancelled |-> c, actualdeparture |-> d,
     actualarrival |-> a, scheduleddeparture |-> sd, scheduledarrival |-> sa]

MaintRec(r, sd, dur, p) ==
    [aircraftregistration |-> r, scheduleddeparture |-> sd, scheduledarrival |-> sd + dur,
     programmed |-> p]

ReportRec(r, day, class, id) ==
    [aircraftregistration |-> r, reportingdate |-> day, reporteurclass |-> class,
     reporteurid |-> id]

LookupRow(id, ap) == [reporteurid |-> id, airport |-> ap]

\* the timestamp off minutes into day, or the missing one
At(day, off) == IF off = NaT THEN NaT ELSE day + off

\* the flight records of the Quality Gate inputs: every combination of registration,
\* cancelled flag and present or missing actual timestamps within MaxTime minutes
GateFlights ==
    {FlightRec(r, c, d, a, DayA, DayA + 1) :
        r \in Regs, c \in BOOLEAN,
        d \in {NaT} \cup {DayA + k : k \in 0..MaxTime},
        a \in {NaT} \cup {DayA + k : k \in 0..MaxTime}}

\* flights that differ in their grain key and cancelled flag
KeyFlights ==
    {FlightRec(r, c, day + 10, day + 70, day, day + 50) :
        r \in Regs, c \in BOOLEAN, day \in {DayA, DayB}}

\* raw delays (minutes) around the 15 and 360 minute limits
Delays == {-5, 0, 10, 15, 16, 20, 359, 360, 400}

\* flights that differ in their actual timestamps and in their delay
DelayFlights ==
    {FlightRec(r, c, At(day, d), At(day, a), day, day + 100) :
        r \in Regs, c \in BOOLEAN, day \in {DayA, DayB},
        d \in {NaT, 0, 30, 500},
        a \in {NaT} \cup {100 + dl : dl \in Delays}}

\* maintenance records of 2.5 days that differ in their grain key and programmed flag
KeyMaint ==
    {MaintRec(r, day, 3600, p) : r \in Regs, day \in {DayA, DayB, DayC}, p \in BOOLEAN}

\* maintenance records that also differ in their duration (0, 1 and 2.5 days)
DurationMaint ==
    {MaintRec(r, day, dur, p) :
        r \in Regs, day \in {DayA, DayC}, p \in BOOLEAN, dur \in {0, 1440, 3600}}

KeyReports ==
    {ReportRec(r, day, class, 1) : r \in Regs, day \in {DayA, DayB, DayC}, class \in {PIREP, MAREP}}

\* reports that also differ in their reporter and may carry a missing registration
GateReports ==
    {ReportRec(r, day, class, id) :
        r \in Regs \cup {NoReg}, day \in {DayA, DayC}, class \in {PIREP, MAREP}, id \in {1, 2}}

LookupRows == {LookupRow(id, ap) : id \in {1, 2}, ap \in {"BCN", "MAD"}}

\* the reporter lookups of at most MaxLookup rows
Lookups == UNION {[1..n -> LookupRows] : n \in 0..MaxLookup}

\* a run that starts: nothing transformed yet, a warehouse created empty
InitRun ==
    /\ pc = "lookups"
    /\ airports = <<>>
    /\ gate_flights = Empty
    /\ extracted_data = [flights |-> flights_df, maintenance |-> maint_df,
                         reports |-> reports_df]
    /\ agg_flights = {}
    /\ agg_maint = {}
    /\ time_df = <<>>
    /\ daily_flight_stats = {}
    /\ total_maint_reports = {}
    /\ dw = EmptyDW
    /\ dw_committed = EmptyDW
    /\ raised = NoError
    /\ progress = NoProgress

\* a first run: neither log file exists yet
InitCommon ==
    /\ InitRun
    /\ overlapping_flights_csv = <<>>
    /\ invalid_reports_csv = <<>>

\* inputs that vary the (date, aircraft) keys of the three sources
Init ==
    /\ flights_df \in [1..2 -> KeyFlights]
    /\ maint_df \in [1..2 -> KeyMaint]
    /\ reports_df \in [1..1 -> KeyReports]
    /\ lookup_reporters_df = <<LookupRow(1, "BCN")>>
    /\ aircrafts = Regs
    /\ InitCommon

\* inputs that vary the actual timestamps of three flights
InitQG ==
    /\ flights_df \in [1..3 -> GateFlights]
    /\ maint_df = [i \in 1..1 |-> MaintRec("r1", DayA, 1440, TRUE)]
    /\ reports_df = [i \in 1..1 |-> ReportRec("r1", DayA, PIREP, 1)]
    /\ lookup_reporters_df = <<LookupRow(1, "BCN")>>
    /\ aircrafts = Regs
    /\ InitCommon

\* inputs that vary the timestamps and delays of two flights
InitFlights ==
    /\ flights_df \in [1..2 -> DelayFlights]
    /\ maint_df = [i \in 1..1 |-> MaintRec("r1", DayA, 1440, TRUE)]
    /\ reports_df = [i \in 1..1 |-> ReportRec("r1", DayA, PIREP, 1)]
    /\ lookup_reporters_df = <<LookupRow(1, "BCN")>>
    /\ aircrafts = Regs
    /\ InitCommon

\* inputs that vary three maintenance records
InitMaint ==
    /\ flights_df = [i \in 1..1 |-> FlightRec("r1", FALSE, DayA + 10, DayA + 70, DayA, DayA + 50)]
    /\ maint_df \in [1..3 -> DurationMaint]
    /\ reports_df = [i \in 1..1 |-> ReportRec("r1", DayA, PIREP, 1)]
    /\ lookup_reporters_df = <<LookupRow(1, "BCN")>>
    /\ aircrafts = Regs
    /\ InitCommon

\* inputs that vary two reports, the aircraft lookup and the reporter lookup
InitReports ==
    /\ flights_df = [i \in 1..1 |-> FlightRec("r1", FALSE, DayA + 10, DayA + 70, DayA, DayA + 50)]
    /\ maint_df = [i \in 1..1 |-> MaintRec("r1", DayA, 1440, TRUE)]
    /\ reports_df \in [1..2 -> GateReports]
    /\ lookup_reporters_df \in Lookups
    /\ aircrafts \in {Regs, {"r1"}}
    /\ InitCommon

\* the stages of transform(), in its order
Next ==
    \/ TransformLookups
    \/ CheckRule1
    \/ CheckRule2
    \/ CheckRule3
    \/ TransformFlights
    \/ TransformMaint
    \/ TransformReports
    \/ MergeFlightsMaintLog
    \/ CreateTotalMaintReports

Spec == Init /\ [][Next]_vars
\* the Quality Gate on its own
NextQG == TransformLookups \/ CheckRule1 \/ CheckRule2 \/ CheckRule3

SpecQG == InitQG /\ [][NextQG]_vars
SpecFlights == InitFlights /\ [][Next]_vars
SpecMaint == InitMaint /\ [][Next]_vars
SpecReports == InitReports /\ [][Next]_vars

\* inputs for the loader: one flight, one maintenance record and one report that vary
\* in their keys, with one or two reporters and one or two aircraft in the lookups
InitLoad ==
    /\ flights_df \in [1..1 -> KeyFlights]
    /\ maint_df \in [1..1 -> KeyMaint]
    /\ reports_df \in [1..1 -> KeyReports]
    /\ lookup_reporters_df \in {<<LookupRow(1, "BCN")>>,
                                <<LookupRow(1, "BCN"), LookupRow(2, "MAD")>>}
    /\ aircrafts \in {Regs, {"r1"}}
    /\ InitCommon

\* transform() followed by load()
NextLoad ==
    \/ Next
    \/ LoadDimensions
    \/ CommitDimensions
    \/ LoadDailyAircraft
    \/ LoadTotalMaintenance
    \/ CommitFacts

SpecLoad == InitLoad /\ [][NextLoad]_vars

\* inputs whose key date (scheduled departure, reporting date) may be missing
InitDates ==
    /\ flights_df \in [1..2 -> {FlightRec(r, FALSE, DayA + 10, DayA + 70, sd, DayA + 50) :
                                    r \in Regs, sd \in {DayA, DayB, NaT}}]
    /\ maint_df \in [1..1 -> {[aircraftregistration |-> r, scheduleddeparture |-> sd,
                                scheduledarrival |-> DayA + 1440, programmed |-> p] :
                                  r \in Regs, sd \in {DayA, NaT}, p \in BOOLEAN}]
    /\ reports_df \in [1..1 -> {ReportRec(r, day, class, 1) :
                                    r \in Regs, day \in {DayA, NaT}, class \in {PIREP, MAREP}}]
    /\ lookup_reporters_df = <<LookupRow(1, "BCN")>>
    /\ aircrafts = Regs
    /\ InitCommon

SpecDates == InitDates /\ [][Next]_vars

\* rows of an aggregated flights frame and of an aggregated maintenance frame, two of
\* each with the key (DayA, r1)
AggFlightRows ==
    {[date |-> build_dateCode(day), aircraftregistration |-> r, flighthours |-> fh,
      takeoffs |-> 1, delays |-> 0, cancellations |-> 0, delayduration |-> 0] :
        <<day, r, fh>> \in {<<DayA, "r1", 60>>, <<DayA, "r1", 120>>, <<DayA, "r2", 60>>,
                            <<DayB, "r1", 60>>}}
AggMaintRows ==
    {[date |-> build_dateCode(day), aircraftregistration |-> r, ADOSS |-> ss, ADOSU |-> su] :
        <<day, r, ss, su>> \in {<<DayA, "r1", 1440, 0>>, <<DayA, "r1", 0, 3600>>,
                                <<DayB, "r2", 1440, 0>>, <<DayC, "r1", 1440, 0>>}}

\* merge_flights_maint_log and create_total_maint_reports called on aggregated frames
\* of any content, frames with a repeated (date, aircraft) key included
InitMerge ==
    /\ agg_flights \in SUBSET AggFlightRows
    /\ agg_maint \in SUBSET AggMaintRows
    /\ reports_df \in [1..1 -> {transform_reports(ReportRec(r, DayA, class, 1)) :
                                    r \in Regs, class \in {PIREP, MAREP}}]
    /\ pc = "merge"
    /\ flights_df = Empty
    /\ maint_df = Empty
    /\ gate_flights = Empty
    /\ extracted_data = [flights |-> Empty, maintenance |-> Empty, reports |-> Empty]
    /\ lookup_reporters_df = <<LookupRow(1, "BCN")>>
    /\ aircrafts = Regs
    /\ airports = transform_reporter_lookup(lookup_reporters_df)
    /\ time_df = <<>>
    /\ daily_flight_stats = {}
    /\ total_maint_reports = {}
    /\ overlapping_flights_csv = <<>>
    /\ invalid_reports_csv = <<>>
    /\ dw = EmptyDW
    /\ dw_committed = EmptyDW
    /\ raised = NoError
    /\ progress = NoProgress

NextMerge == MergeFlightsMaintLog \/ CreateTotalMaintReports

SpecMerge == InitMerge /\ [][NextMerge]_vars

\* what an earlier run left in the two log files: nothing, or one row
EarlierOverlaps == {<<>>, <<FlightRec("r1", FALSE, DayC, DayC + 90, DayC, DayC + 60)>>}
EarlierInvalid == {<<>>, <<ReportRec(NoReg, DayC, PIREP, 1)>>}

\* a later run of the Quality Gate: the log files hold what an earlier run appended
InitLogs ==
    /\ flights_df \in [1..2 -> GateFlights]
    /\ maint_df = [i \in 1..1 |-> MaintRec("r1", DayA, 1440, TRUE)]
    /\ reports_df \in [1..1 -> {ReportRec(r, DayA, PIREP, 1) : r \in {"r1", NoReg}}]
    /\ lookup_reporters_df = <<LookupRow(1, "BCN")>>
    /\ aircrafts = Regs
    /\ overlapping_flights_csv \in EarlierOverlaps
    /\ invalid_reports_csv \in EarlierInvalid
    /\ InitRun

SpecLogs == InitLogs /\ [][NextQG]_vars

\* scheduled departures on days whose unpadded fields read alike (January 11 and
\* November 1, January 1 and November 11), at midnight and at ten o'clock
CodeStamps ==
    {Stamp(y, m, d, mi) :
        <<y, m, d>> \in {<<2022, 1, 11>>, <<2022, 11, 1>>, <<2022, 1, 1>>, <<2022, 11, 11>>,
                         <<2021, 1, 11>>},
        mi \in {0, 600}}

\* three flights of r1 that differ in their scheduled departure
InitDateCodes ==
    /\ flights_df \in [1..3 -> {FlightRec("r1", FALSE, sd + 10, sd + 70, sd, sd + 50) :
                                    sd \in CodeStamps}]
    /\ maint_df = [i \in 1..1 |-> MaintRec("r1", DayA, 1440, TRUE)]
    /\ reports_df = [i \in 1..1 |-> ReportRec("r1", DayA, PIREP, 1)]
    /\ lookup_reporters_df = <<LookupRow(1, "BCN")>>
    /\ aircrafts = Regs
    /\ InitCommon

SpecDateCodes == InitDateCodes /\ [][Next]_vars

\* the reports of the source: none, or one that may carry a missing registration
EtlReports ==
    {Empty} \cup [1..1 -> {ReportRec(r, day, class, 1) :
                              r \in Regs \cup {NoReg}, day \in {DayA, DayC},
                              class \in {PIREP, MAREP}}]

\* a process that starts the driver: no frame, no batch read, no step run yet
EtlStart ==
    /\ flights_df = Empty
    /\ maint_df = Empty
    /\ reports_df = Empty
    /\ gate_flights = Empty
    /\ airports = <<>>
    /\ agg_flights = {}
    /\ agg_maint = {}
    /\ time_df = <<>>
    /\ daily_flight_stats = {}
    /\ total_maint_reports = {}
    /\ overlapping_flights_csv = <<>>
    /\ invalid_reports_csv = <<>>
    /\ raised = NoError
    /\ progress = NoProgress

\* the sources a run reads: extracted_data holds the rows of the three source tables,
\* lookup_reporters_df and aircrafts the rows of the two lookup files
EtlInputs ==
    /\ extracted_data \in
           [flights : [1..2 -> KeyFlights],
            maintenance : [1..1 -> {MaintRec("r1", day, 3600, p) :
                                      day \in {DayA, DayC}, p \in BOOLEAN}],
            reports : EtlReports]
    /\ lookup_reporters_df \in {<<LookupRow(1, "BCN")>>,
                                <<LookupRow(1, "BCN"), LookupRow(2, "BCN")>>,
                                <<LookupRow(1, "BCN"), LookupRow(2, "MAD")>>}
    /\ aircrafts \in {Regs, {"r1"}}

\* the state after dw = DW(create=True), before the first load statement of the driver
InitEtl ==
    /\ EtlInputs
    /\ EtlStart
    /\ pc = "etl_aircrafts"
    /\ dw = EmptyDW
    /\ dw_committed = EmptyDW

\* the statements of the driver, in its order
NextEtl ==
    \/ EtlLoadAircrafts
    \/ EtlLoadAirports
    \/ EtlCleanFlights
    \/ EtlCleanReports
    \/ EtlValidDates
    \/ EtlLoadDates
    \/ EtlGetFacts
    \/ EtlLoadFacts
    \/ EtlClose

SpecEtl == InitEtl /\ [][NextEtl]_vars

\* the warehouse file as an earlier run committed it
StaleDW ==
    [Aircrafts |-> {[id |-> 1, key |-> "r0"], [id |-> 2, key |-> "r1"]},
     Date |-> {[id |-> 1, key |-> Stamp(2019, 1, 1, 0)]},
     Airports |-> {[id |-> 1, key |-> "LIS"]},
     DailyAircraftStats |->
         {[dateid |-> 1, aircraftid |-> 1, flighthours |-> 999, takeoffs |-> 9,
           ADOSS |-> 0, ADOSU |-> 0, delays |-> 0, cancellations |-> 0,
           delayduration |-> 0, pilotreports |-> 0, maintenancereports |-> 9]},
     TotalMaintenanceReports |->
         {[airportid |-> 1, aircraftid |-> 1, reports |-> 9, takeoffs |-> 9,
           flighthours |-> 999]}]

\* a later run of the driver: the process starts with the file of the earlier run on disk
InitRuns ==
    /\ EtlInputs
    /\ EtlStart
    /\ pc = "etl_create"
    /\ dw = StaleDW
    /\ dw_committed = StaleDW

NextRuns == EtlCreateDW \/ NextEtl

SpecRuns == InitRuns /\ [][NextRuns]_vars

----------------------------------------------------------------------------
(* The Quality Gate's results *)

\* the rows of df that are not cancelled and carry both actual timestamps
Flown(df) ==
    {i \in DOMAIN df : /\ ~df[i].cancelled
                        /\ df[i].actualdeparture # NaT
                        /\ df[i].actualarrival # NaT}

\* two flights overlap when the one that departs earlier arrives strictly after the
\* other departs; of two flights that depart together, when each arrives after that
Overlap(f, g) ==
    IF f.actualdeparture < g.actualdeparture THEN f.actualarrival > g.actualdeparture
    ELSE IF g.actualdeparture < f.actualdeparture THEN g.actualarrival > f.actualdeparture
    ELSE f.actualarrival > g.actualdeparture /\ g.actualarrival > f.actualdeparture

AfterRule2 == pc \in {"rule3", "flights"}

\* C1: after BR-1 and BR-2 no two remaining non-cancelled flights of one aircraft
\* that both carry their actual departure and arrival overlap.
C1_NoOverlapAfterGate ==
    AfterRule2 =>
        \A i, j \in Flown(flights_df) :
            (i # j /\ flights_df[i].aircraftregistration = flights_df[j].aircraftregistration)
                => ~Overlap(flights_df[i], flights_df[j])

\* three flights of one aircraft that overlapped one another went through the gate,
\* which logged two of them and kept the third
C1_Witness ==
    /\ pc = "rule3"
    /\ Flown(extracted_data.flights) = {1, 2, 3}
    /\ \A i, j \in {1, 2, 3} :
          i # j => /\ extracted_data.flights[i].aircraftregistration
                        = extracted_data.flights[j].aircraftregistration
                   /\ extracted_data.flights[i].actualarrival
                        > extracted_data.flights[i].actualdeparture
                   /\ Overlap(extracted_data.flights[i], extracted_data.flights[j])
    /\ Cardinality(DOMAIN flights_df) = 1
    /\ Len(overlapping_flights_csv) = 2

\* C2: after BR-1 every non-cancelled flight with both actual timestamps has its
\* actual arrival strictly after its actual departure.
C2_ArrivalAfterDeparture ==
    pc \in {"rule2", "rule3", "flights"} =>
        \A i \in Flown(flights_df) :
            flights_df[i].actualarrival > flights_df[i].actualdeparture

\* C3: after BR-3 every remaining report's registration is in the aircraft dimension
\* and every extracted report whose registration is not in it has been removed.
C3_ReportsReferenceAircraft ==
    pc \notin {"lookups", "rule1", "rule2", "rule3"} =>
        /\ \A i \in DOMAIN reports_df : reports_df[i].aircraftregistration \in aircrafts
        /\ \A i \in DOMAIN extracted_data.reports :
              extracted_data.reports[i].aircraftregistration \notin aircrafts
                  => i \notin DOMAIN reports_df

\* BR-3 removed a report of an aircraft that is not in the dimension and kept another
C3_Witness ==
    /\ pc = "flights"
    /\ \E i \in DOMAIN extracted_data.reports :
          /\ extracted_data.reports[i].aircraftregistration \in Regs \ aircrafts
          /\ i \notin DOMAIN reports_df
    /\ DOMAIN reports_df # {}
    /\ invalid_reports_csv # <<>>

----------------------------------------------------------------------------
(* The Reconciler's results *)

Reconciled == pc \in {"total", "done"}

\* the (date, aircraft) pairs of a grouped frame
KeysOf(rows) == {<<r.date, r.aircraftregistration>> : r \in rows}

\* the pairs that occur in at least one of the three aggregated sources
SourceKeys == KeysOf(agg_flights) \cup KeysOf(agg_maint) \cup GrainKeys(reports_df)

\* the rows of the daily fact table for a pair
DailyRows(key) ==
    {r \in daily_flight_stats : r.date = key[1] /\ r.aircraftregistration = key[2]}

\* one row for the pair, with 0 in every measure of a source that has no record for it
OneZeroFilledRow(key) ==
    /\ Cardinality(DailyRows(key)) = 1
    /\ \A r \in DailyRows(key) :
          /\ key \notin KeysOf(agg_flights) => \A c \in FlightCols : r[c] = 0
          /\ key \notin GrainKeys(reports_df) => \A c \in ReportCols : r[c] = 0
          /\ key \notin KeysOf(agg_maint) => \A c \in MaintCols : r[c] = 0

\* C4 as stated: every pair of any aggregated source has exactly one zero-filled row
\* in the daily fact table.
C4_EveryPairOnce ==
    Reconciled => \A key \in SourceKeys : OneZeroFilledRow(key)

\* C4 as amended: every pair of any aggregated source whose date lies in a year of the
\* flight aggregate has exactly one row in the daily fact table, and in that row every
\* measure of a source that has no record for the pair is exactly 0.
C4_EveryPairOfFlightYearsOnce ==
    Reconciled =>
        \A key \in SourceKeys :
            (\E f \in agg_flights : YearOf(f.date) = YearOf(key[1])) => OneZeroFilledRow(key)

\* a pair that only the maintenance aggregate has got its row, zero-filled
C4_Witness ==
    /\ pc = "done"
    /\ \E key \in KeysOf(agg_maint) :
          /\ key \notin KeysOf(agg_flights) \cup GrainKeys(reports_df)
          /\ \E r \in DailyRows(key) : r.ADOSS + r.ADOSU = 3600 /\ r.flighthours = 0

\* the years in which an extracted flight is scheduled to depart
FlightYears ==
    {YearOf(extracted_data.flights[i].scheduleddeparture) : i \in DOMAIN extracted_data.flights}

\* midnight of the day of timestamp t
DayStart(t) == t - (t % 1440)

\* the days of the extracted maintenance and report records of a year without flights
DaysOutsideFlightYears ==
    {DayStart(extracted_data.maintenance[i].scheduleddeparture) :
        i \in {j \in DOMAIN extracted_data.maintenance :
                  YearOf(extracted_data.maintenance[j].scheduleddeparture) \notin FlightYears}}
    \cup {DayStart(extracted_data.reports[i].reportingdate) :
            i \in {j \in DOMAIN extracted_data.reports :
                      YearOf(extracted_data.reports[j].reportingdate) \notin FlightYears}}

\* C5: every date of the date dimension and every row of the daily fact table lies in
\* a year in which some flight is scheduled to depart; a maintenance or report record
\* of another year gives no date to the dimension and no row to the fact table.
C5_OnlyFlightYears ==
    Reconciled =>
        /\ \A k \in DOMAIN time_df :
              time_df[k].year \in FlightYears /\ YearOf(time_df[k].date) \in FlightYears
        /\ \A r \in daily_flight_stats : YearOf(r.date) \in FlightYears
        /\ \A d \in DaysOutsideFlightYears :
              /\ \A k \in DOMAIN time_df : time_df[k].date # d
              /\ \A r \in daily_flight_stats : r.date # d

\* a maintenance record and a report of years without flights went through the merge
C5_Witness ==
    /\ pc = "done"
    /\ \E i \in DOMAIN extracted_data.maintenance :
          YearOf(extracted_data.maintenance[i].scheduleddeparture) \notin FlightYears
    /\ \E i \in DOMAIN extracted_data.reports :
          YearOf(extracted_data.reports[i].reportingdate) \notin FlightYears
    /\ Len(time_df) > 0

\* C6: the flighthours of the daily fact table add up to the actual durations of the
\* non-cancelled flights the Quality Gate kept (minutes here), and its takeoffs to the
\* number of those flights.
C6_FlightHoursConserved ==
    Reconciled =>
        /\ SumOver(daily_flight_stats, [r \in daily_flight_stats |-> r.flighthours])
             = SumOver(Flown(gate_flights),
                       [i \in DOMAIN gate_flights |->
                           gate_flights[i].actualarrival - gate_flights[i].actualdeparture])
        /\ SumOver(daily_flight_stats, [r \in daily_flight_stats |-> r.takeoffs])
             = Cardinality(NonCancelled(gate_flights))

\* two flights of one cell were flown and both are in its row
C6_Witness ==
    /\ pc = "done"
    /\ Cardinality(Flown(gate_flights)) = 2
    /\ \E r \in daily_flight_stats : r.takeoffs = 2 /\ r.flighthours > 0

----------------------------------------------------------------------------
(* The Attribute Deriver's results *)

Derived == pc \in {"maint", "reports", "merge", "total", "done"}

\* actual arrival - scheduled arrival of a flight with an actual arrival, in minutes
RawDelay(g) == g.actualarrival - g.scheduledarrival

\* C7: delay minutes is the raw delay when the flight is not cancelled and the raw
\* delay exceeds 15 and is less than 360, and 0 otherwise; the delay flag is 1 exactly
\* when delay minutes is greater than 0 (10 gives (0, 0), 20 (20, 1), 400 (0, 0)).
C7_DelayMinutes ==
    Derived =>
        \A i \in DOMAIN flights_df :
            LET g == gate_flights[i]
                counted == /\ ~g.cancelled
                           /\ g.actualarrival # NaT
                           /\ RawDelay(g) > 15
                           /\ RawDelay(g) < 360
            IN /\ flights_df[i].DELAY = IF counted THEN RawDelay(g) ELSE 0
               /\ flights_df[i].DY = IF flights_df[i].DELAY > 0 THEN 1 ELSE 0
               /\ (~g.cancelled /\ g.actualarrival # NaT /\ RawDelay(g) = 10)
                     => flights_df[i].DELAY = 0 /\ flights_df[i].DY = 0
               /\ (~g.cancelled /\ g.actualarrival # NaT /\ RawDelay(g) = 20)
                     => flights_df[i].DELAY = 20 /\ flights_df[i].DY = 1
               /\ (~g.cancelled /\ g.actualarrival # NaT /\ RawDelay(g) = 400)
                     => flights_df[i].DELAY = 0 /\ flights_df[i].DY = 0

\* a flight 20 minutes late and one 400 minutes late were derived
C7_Witness ==
    /\ pc = "done"
    /\ \E i, j \in DOMAIN flights_df :
          /\ ~gate_flights[i].cancelled /\ gate_flights[i].actualarrival # NaT
          /\ RawDelay(gate_flights[i]) = 20 /\ flights_df[i].DELAY = 20
          /\ ~gate_flights[j].cancelled /\ gate_flights[j].actualarrival # NaT
          /\ RawDelay(gate_flights[j]) = 400 /\ flights_df[j].DELAY = 0

\* the non-cancelled flights with an actual arrival
Arrived == {i \in DOMAIN gate_flights :
               ~gate_flights[i].cancelled /\ gate_flights[i].actualarrival # NaT}

\* C8 as stated: for a non-cancelled flight delay minutes is zero exactly when the raw
\* delay lies outside [15, 360): exactly 15 gives (15, 1) and exactly 360 gives 0.
C8_HalfOpenInterval ==
    Derived =>
        \A i \in Arrived :
            /\ flights_df[i].DELAY = 0
                  <=> (RawDelay(gate_flights[i]) < 15 \/ RawDelay(gate_flights[i]) >= 360)
            /\ RawDelay(gate_flights[i]) = 15
                  => flights_df[i].DELAY = 15 /\ flights_df[i].DY = 1
            /\ RawDelay(gate_flights[i]) = 360 => flights_df[i].DELAY = 0

\* C8 as amended: for a non-cancelled flight delay minutes is zero exactly when the
\* raw delay lies outside the open interval (15, 360): exactly 15 gives (0, 0) and
\* exactly 360 gives 0.
C8_OpenInterval ==
    Derived =>
        \A i \in Arrived :
            /\ flights_df[i].DELAY = 0
                  <=> (RawDelay(gate_flights[i]) <= 15 \/ RawDelay(gate_flights[i]) >= 360)
            /\ RawDelay(gate_flights[i]) = 15
                  => flights_df[i].DELAY = 0 /\ flights_df[i].DY = 0
            /\ RawDelay(gate_flights[i]) = 360 => flights_df[i].DELAY = 0

\* a flight exactly 15 minutes late and one exactly 360 minutes late were derived
C8_Witness ==
    /\ pc = "done"
    /\ \E i, j \in Arrived :
          /\ RawDelay(gate_flights[i]) = 15 /\ flights_df[i].DY = 0
          /\ RawDelay(gate_flights[j]) = 360 /\ flights_df[j].DY = 0

\* scheduled arrival - scheduled departure of a maintenance record, in minutes
Duration(m) == m.scheduledarrival - m.scheduleddeparture

\* the extracted maintenance records of a (date, aircraft) cell
CellMaintenance(date, reg) ==
    {i \in DOMAIN extracted_data.maintenance :
        /\ DayStart(extracted_data.maintenance[i].scheduleddeparture) = date
        /\ extracted_data.maintenance[i].aircraftregistration = reg}

\* the durations of the programmed (p) or the other (~p) extracted maintenance records
DurationIf(p) ==
    [i \in DOMAIN extracted_data.maintenance |->
        IF extracted_data.maintenance[i].programmed = p
        THEN Duration(extracted_data.maintenance[i]) ELSE 0]

\* C9: TOSS is the whole duration and TOSU 0 when programmed, TOSS 0 and TOSU the
\* whole duration otherwise, so TOSS + TOSU is the duration; ADOSS and ADOSU of a
\* cell are the sums of TOSS and TOSU over the maintenance records of its scheduled
\* departure date and aircraft.
C9_OutOfServiceTime ==
    /\ pc \in {"reports", "merge", "total", "done"} =>
          \A i \in DOMAIN maint_df :
              LET m == extracted_data.maintenance[i]
              IN /\ maint_df[i].TOSS = IF m.programmed THEN Duration(m) ELSE 0
                 /\ maint_df[i].TOSU = IF m.programmed THEN 0 ELSE Duration(m)
                 /\ maint_df[i].TOSS + maint_df[i].TOSU = Duration(m)
    /\ Reconciled =>
          \A r \in agg_maint \cup daily_flight_stats :
              /\ r.ADOSS = SumOver(CellMaintenance(r.date, r.aircraftregistration),
                                   DurationIf(TRUE))
              /\ r.ADOSU = SumOver(CellMaintenance(r.date, r.aircraftregistration),
                                   DurationIf(FALSE))

\* a cell with two programmed records (2.5 days and 1 day) and one unprogrammed of
\* 2.5 days
C9_Witness ==
    /\ pc = "done"
    /\ \E r \in daily_flight_stats : r.ADOSS = 3600 + 1440 /\ r.ADOSU = 3600

----------------------------------------------------------------------------
(* The Total Maintenance Reports fact *)

\* the MAREP reports that survived BR-3, are dated within the date dimension, concern
\* aircraft reg and were filed by a reporter whose airport in the lookup is ap
CountedReports(reg, ap) ==
    {i \in DOMAIN reports_df :
        /\ reports_df[i].reporteurclass = MAREP
        /\ \E k \in DOMAIN time_df : time_df[k].date = reports_df[i].date
        /\ reports_df[i].aircraftregistration = reg
        /\ \E k \in DOMAIN lookup_reporters_df :
              lookup_reporters_df[k] = LookupRow(reports_df[i].reporteurid, ap)}

\* C10: the fact has at most one row per (aircraft, airport) and its reports is the
\* number of those reports, each counted exactly once, whatever the reporter lookup
\* holds.
C10_ReportsCountedOnce ==
    pc = "done" =>
        \A reg \in Regs, ap \in {"BCN", "MAD"} :
            LET rows == {t \in total_maint_reports :
                            t.aircraftregistration = reg /\ t.airportcode = ap}
            IN /\ Cardinality(rows) <= 1
               /\ \A t \in rows : t.reports = Cardinality(CountedReports(reg, ap))
               /\ CountedReports(reg, ap) # {} => rows # {}

----------------------------------------------------------------------------
(* The Warehouse Loader's order *)

\* the dimension rows load() has to ensure: every aircraft, date and airport it is given
DimensionsLoaded(tables) ==
    /\ \A a \in aircrafts : Lookup(tables.Aircrafts, a) # None
    /\ \A k \in DOMAIN time_df : Lookup(tables.Date, time_df[k].date) # None
    /\ \A k \in DOMAIN airports : Lookup(tables.Airports, airports[k].airportcode) # None

FactRows == dw.DailyAircraftStats \cup dw.TotalMaintenanceReports

\* C11: a fact table has a row only when the aircraft, date and airport dimensions have
\* all been loaded in full and committed; when loading a dimension raised, the run has
\* stopped and the fact tables are empty.
C11_FactsAfterDimensions ==
    /\ FactRows # {} =>
          /\ DimensionsLoaded(dw_committed)
          /\ raised # "dimensions"
    /\ raised = "dimensions" =>
          /\ FactRows = {}
          /\ pc = "raised"
          /\ ~ENABLED NextLoad

\* both fact tables received rows and were committed
C11_Witness ==
    /\ pc = "loaded"
    /\ dw_committed.DailyAircraftStats # {}
    /\ dw_committed.TotalMaintenanceReports # {}
    /\ Cardinality(dw_committed.Aircrafts) = 2
    /\ dw_committed.Airports # {}

----------------------------------------------------------------------------
(* Missing dates *)

\* an extracted flight, maintenance record or report lacks its key date
MissingDate ==
    \/ \E i \in DOMAIN extracted_data.flights :
          extracted_data.flights[i].scheduleddeparture = NaT
    \/ \E i \in DOMAIN extracted_data.maintenance :
          extracted_data.maintenance[i].scheduleddeparture = NaT
    \/ \E i \in DOMAIN extracted_data.reports :
          extracted_data.reports[i].reportingdate = NaT

\* C12: when a flight, maintenance record or report lacks its date (or carries one that
\* does not parse, which to_timestamps turns into the missing one), the run aborts: it
\* never gets to a date dimension and fact tables built without that record.
C12_MissingDateAborts ==
    MissingDate => pc \notin {"total", "done"}

----------------------------------------------------------------------------
(* Grain uniqueness *)

\* C15: the Reconciler checks its aggregated inputs for a repeated (date, aircraft) key
\* and fails on one, so it never returns a daily fact table in which a key has more
\* than one row.
C15_DuplicateKeyFails ==
    Reconciled =>
        \A r1, r2 \in daily_flight_stats : SameGrain(r1, r2) => r1 = r2

----------------------------------------------------------------------------
(* The log files *)

\* s is an initial segment of t
IsPrefix(s, t) == Len(s) <= Len(t) /\ SubSeq(t, 1, Len(s)) = s

\* C16: both log files are append-only across runs: whatever a log held before a step
\* it still holds, in place, after it, also when the append of a later run fails.
C16_LogsAppendOnly ==
    [][/\ IsPrefix(overlapping_flights_csv, overlapping_flights_csv')
       /\ IsPrefix(invalid_reports_csv, invalid_reports_csv')]_vars

\* C17: every row of the overlapping-flights log is the exact extracted record of a
\* flight, with the actual timestamps it had before the Quality Gate repaired anything.
C17_LoggedRowsArePreFix ==
    \A k \in DOMAIN overlapping_flights_csv :
        \E i \in DOMAIN extracted_data.flights :
            overlapping_flights_csv[k] = extracted_data.flights[i]

----------------------------------------------------------------------------
(* BR-1's frame *)

\* BR-1 has run and BR-2 has not yet
AfterRule1 == pc = "rule2"

\* an extracted flight BR-1 has to repair
ArrivesBeforeDeparting(f) ==
    /\ ~f.cancelled
    /\ f.actualarrival # NaT
    /\ f.actualdeparture # NaT
    /\ f.actualarrival <= f.actualdeparture

\* C19: BR-1 neither removes nor adds a flight; a non-cancelled flight with both actual
\* timestamps and arrival <= departure has the two exchanged and nothing else changed,
\* every other flight (cancelled, or with a missing actual timestamp, or in order) is
\* exactly as extracted.
C19_Rule1Frame ==
    AfterRule1 =>
        /\ DOMAIN flights_df = DOMAIN extracted_data.flights
        /\ \A i \in DOMAIN flights_df :
             LET f == extracted_data.flights[i]
             IN IF ArrivesBeforeDeparting(f)
                THEN flights_df[i] = [f EXCEPT !.actualarrival = f.actualdeparture,
                                               !.actualdeparture = f.actualarrival]
                ELSE flights_df[i] = f

\* BR-1 has exchanged the timestamps of one flight and left alone a cancelled flight that
\* arrives before it departs and a flight with a missing timestamp
C19_Witness ==
    /\ AfterRule1
    /\ \E i, j, k \in DOMAIN flights_df :
         /\ extracted_data.flights[i].actualarrival < extracted_data.flights[i].actualdeparture
         /\ ArrivesBeforeDeparting(extracted_data.flights[i])
         /\ flights_df[i] # extracted_data.flights[i]
         /\ flights_df[j].cancelled
         /\ flights_df[j].actualarrival # NaT
         /\ flights_df[j].actualdeparture # NaT
         /\ flights_df[j].actualarrival < flights_df[j].actualdeparture
         /\ flights_df[k].actualarrival = NaT
         /\ flights_df[k].actualdeparture # NaT

----------------------------------------------------------------------------
(* The run of the driver *)

\* the exceptions of the steps that read or transform the source batches
TransformErrors == {"clean_flights", "clean_reports", "valid_dates", "get_date_dim"}

\* the driver holds the two fact batches that get_facts returned
FactsBuilt == pc \in {"etl_load_facts", "etl_close", "closed"}

\* C13: when the report source yields no record the run completes without raising: no
\* step that takes the report batch raises, the daily fact table is built with
\* pilotreports = maintenancereports = 0 in every row, and the Total Maintenance Reports
\* fact is empty.
C13_EmptyReportsComplete ==
    ~HasColumns(extracted_data.reports) =>
        /\ raised \notin TransformErrors
        /\ FactsBuilt =>
             /\ \A r \in daily_flight_stats : r.pilotreports = 0 /\ r.maintenancereports = 0
             /\ total_maint_reports = {}

\* C14: none of the three quality rules raises, whatever the values of the records
\* (missing actual timestamps, missing or unknown registrations, any number of
\* violations): the run never ends with the exception of a Quality Gate step.
C14_QualityRulesNeverRaise ==
    raised \notin {"clean_flights", "clean_reports"}

\* the rows the warehouse holds, committed or not
WarehouseRows ==
    dw.Aircrafts \cup dw.Date \cup dw.Airports \cup dw.DailyAircraftStats
    \cup dw.TotalMaintenanceReports

\* C18: the stages are strictly sequential: a transformation step has started only when
\* all five source batches have been extracted, and the warehouse holds a row only when
\* every transformation step has run.
C18_StagesSequential ==
    /\ progress.transformed # {} => progress.extracted = Sources
    /\ WarehouseRows # {} => progress.transformed = Steps

\* C20: the airport records handed to the loader carry the airport code and nothing
\* else, one record for each distinct airport of the reporter lookup, however many
\* reporters share it.
C20_AirportRecords ==
    "transform_reporter_lookup" \in progress.transformed =>
        /\ \A k \in DOMAIN airports : DOMAIN airports[k] = {"airportcode"}
        /\ \A k, j \in DOMAIN airports :
             airports[k].airportcode = airports[j].airportcode => k = j
        /\ {airports[k].airportcode : k \in DOMAIN airports}
               = {lookup_reporters_df[k].airport : k \in DOMAIN lookup_reporters_df}

----------------------------------------------------------------------------
(* The fact loaders and the dimensions *)

\* the positions of load() and of the driver at which fact rows are loaded
FactLoading == {"load_daily_aircraft", "load_total_maintenance", "commit_facts",
                "etl_load_facts"}

Dimensions(tables) == <<tables.Aircrafts, tables.Date, tables.Airports>>

\* C21: loading the fact tables never inserts, updates or deletes a dimension row: every
\* step of fact loading leaves the aircraft, date and airport dimensions as they were,
\* also when a fact row names a registration, date or airport that is in no dimension.
C21_FactsLeaveDimensions ==
    [][(pc \in FactLoading) => Dimensions(dw') = Dimensions(dw)]_vars

\* both fact tables were loaded although a daily row names an aircraft that is in no
\* dimension, and the dimensions are those committed before the facts
C21_Witness ==
    /\ pc = "commit_facts"
    /\ dw.DailyAircraftStats # {}
    /\ \E r \in daily_flight_stats : Lookup(dw.Aircrafts, r.aircraftregistration) = None
    /\ Dimensions(dw) = Dimensions(dw_committed)
    /\ dw.Aircrafts # {}

----------------------------------------------------------------------------
(* Runs in succession *)

Keys(table) == {t.key : t \in table}

\* every row of tables was written by the current run from the current sources
WrittenByThisRun(tables) ==
    /\ Keys(tables.Aircrafts) \subseteq aircrafts
    /\ Keys(tables.Airports)
           \subseteq {lookup_reporters_df[k].airport : k \in DOMAIN lookup_reporters_df}
    /\ Keys(tables.Date) \subseteq {time_df[k].date : k \in DOMAIN time_df}
    /\ tables.DailyAircraftStats \subseteq UNION {EtlDailyFact(r) : r \in daily_flight_stats}
    /\ tables.TotalMaintenanceReports
           \subseteq UNION {TotalFact(t) : t \in total_maint_reports}

\* C22: each run starts from an empty warehouse: once the driver has created its DW
\* object, the warehouse, as the connection sees it and as committed, holds no row of
\* an earlier run, only rows this run computed from its sources and wrote.
C22_RunStartsEmpty ==
    pc # "etl_create" =>
        /\ WrittenByThisRun(dw)
        /\ WrittenByThisRun(dw_committed)
        /\ pc = "etl_aircrafts" => dw = EmptyDW /\ dw_committed = EmptyDW

\* a later run completed and committed dimension and fact rows of its own
C22_Witness ==
    /\ pc = "closed"
    /\ dw_committed.DailyAircraftStats # {}
    /\ dw_committed.TotalMaintenanceReports # {}
    /\ Keys(dw_committed.Aircrafts) = Regs
    /\ dw_committed.Airports # {}

----------------------------------------------------------------------------
(* BR-2's discards *)

\* the flights BR-2 received: the extracted ones after BR-1's swaps
Rule2Input == check_rule_1_actualarrival_after_departure(extracted_data.flights)

\* the timeline of flight i: the other non-cancelled flights of its aircraft
Timeline(df, i) ==
    {j \in DOMAIN df \ {i} :
        ~df[j].cancelled /\ df[j].aircraftregistration = df[i].aircraftregistration}

\* departure a can stand before departure b when sorted ascending, missing ones last
SortsBefore(a, b) == b = NaT \/ (a # NaT /\ a <= b)

\* the flights that can directly follow i in its departure-sorted timeline
NextFlights(df, i) ==
    {j \in Timeline(df, i) :
        /\ SortsBefore(df[i].actualdeparture, df[j].actualdeparture)
        /\ \A m \in Timeline(df, i) \ {j} :
             \/ SortsBefore(df[m].actualdeparture, df[i].actualdeparture)
             \/ SortsBefore(df[j].actualdeparture, df[m].actualdeparture)}

\* i can be the last flight of its timeline
CanBeLast(df, i) ==
    \A j \in Timeline(df, i) : SortsBefore(df[j].actualdeparture, df[i].actualdeparture)

\* i arrives strictly after j departs
ArrivesAfterDeparture(df, i, j) ==
    /\ df[i].actualarrival # NaT
    /\ df[j].actualdeparture # NaT
    /\ df[i].actualarrival > df[j].actualdeparture

\* C23: BR-2 discards a flight exactly when it is non-cancelled, has an actual arrival
\* and arrives strictly after the departure of the flight that follows it in the
\* departure-sorted timeline of its aircraft, as that timeline stood before any removal;
\* cancelled flights are never discarded, and of each aircraft a flight that can be the
\* last of the timeline is kept.
C23_DiscardsOverlappingEarlier ==
    AfterRule2 =>
        LET df == Rule2Input
            kept == DOMAIN gate_flights
        IN /\ kept \subseteq DOMAIN df
           /\ \A i \in kept : gate_flights[i] = df[i]
           /\ \A i \in DOMAIN df :
                /\ df[i].cancelled => i \in kept
                /\ i \notin kept =>
                     /\ ~df[i].cancelled
                     /\ \E j \in NextFlights(df, i) : ArrivesAfterDeparture(df, i, j)
                /\ i \in kept /\ ~df[i].cancelled =>
                     \/ CanBeLast(df, i)
                     \/ \E j \in NextFlights(df, i) : ~ArrivesAfterDeparture(df, i, j)
                /\ ~df[i].cancelled =>
                     \E l \in {i} \cup Timeline(df, i) : CanBeLast(df, l) /\ l \in kept

\* A departs first and arrives after B has departed, B arrives exactly when a third
\* flight of the aircraft departs: A is discarded, B and the third flight are kept
C23_Witness ==
    /\ AfterRule2
    /\ \E a, b, c \in DOMAIN Rule2Input :
         /\ Rule2Input[a].aircraftregistration = "r1"
         /\ Rule2Input[b].aircraftregistration = "r1"
         /\ Rule2Input[c].aircraftregistration = "r1"
         /\ ~Rule2Input[a].cancelled /\ ~Rule2Input[b].cancelled /\ ~Rule2Input[c].cancelled
         /\ Rule2Input[a].actualdeparture = DayA
         /\ Rule2Input[a].actualarrival = DayA + 2
         /\ Rule2Input[b].actualdeparture = DayA + 1
         /\ Rule2Input[b].actualarrival = DayA + 2
         /\ Rule2Input[c].actualdeparture = DayA + 2
         /\ a \notin DOMAIN gate_flights
         /\ b \in DOMAIN gate_flights
         /\ c \in DOMAIN gate_flights

----------------------------------------------------------------------------
(* The date dimension *)

\* the calendar days of the cleaned flights, of the maintenance records and of the
\* reports that name a known aircraft
SourceDays ==
    {DayStart(gate_flights[i].scheduleddeparture) :
        i \in {j \in DOMAIN gate_flights : gate_flights[j].scheduleddeparture # NaT}}
    \cup {DayStart(extracted_data.maintenance[i].scheduleddeparture) :
            i \in {j \in DOMAIN extracted_data.maintenance :
                      extracted_data.maintenance[j].scheduleddeparture # NaT}}
    \cup {DayStart(extracted_data.reports[i].reportingdate) :
            i \in {j \in DOMAIN extracted_data.reports :
                      /\ extracted_data.reports[j].reportingdate # NaT
                      /\ extracted_data.reports[j].aircraftregistration \in aircrafts}}

\* the years of the days on which a cleaned flight is scheduled to depart
AnchorYears ==
    {YearOf(gate_flights[i].scheduleddeparture) :
        i \in {j \in DOMAIN gate_flights : gate_flights[j].scheduleddeparture # NaT}}

\* C24: the date dimension is exactly the set of days of the flights, maintenance records
\* and reports that lie in a year of the flights: no day twice, in ascending order, every
\* date of the daily fact table among them, each row with the year of its date and the
\* month code year * 100 + month.
C24_DateDimension ==
    Reconciled =>
        /\ {time_df[k].date : k \in DOMAIN time_df}
               = {d \in SourceDays : YearOf(d) \in AnchorYears}
        /\ \A k \in 1..(Len(time_df) - 1) : time_df[k].date < time_df[k + 1].date
        /\ \A r \in daily_flight_stats : \E k \in DOMAIN time_df : time_df[k].date = r.date
        /\ \A k \in DOMAIN time_df :
             /\ time_df[k].year = time_df[k].date \div (12 * 31 * 1440)
             /\ time_df[k].month
                    = time_df[k].year * 100 + ((time_df[k].date \div (31 * 1440)) % 12) + 1

\* the dimension holds a March day of 2022 and a November day of 2023, in that order,
\* and a day of 2021 of the sources was left out
C24_Witness ==
    /\ pc = "done"
    /\ Len(time_df) = 2
    /\ time_df[1].date = DayA
    /\ time_df[1].month = 202203
    /\ time_df[2].date = DayB
    /\ time_df[2].month = 202311
    /\ DayC \in SourceDays

----------------------------------------------------------------------------
(* The flight measures of the Total Maintenance Reports *)

\* the rows of the flight aggregate of aircraft a
FlightRowsOf(a) == {r \in agg_flights : r.aircraftregistration = a}

\* the (aircraft, airport) pairs of the MAREP reports that are dated within the date
\* dimension and whose reporter the lookup places at an airport
ReportedPairs ==
    {<<reports_df[i].aircraftregistration, lookup_reporters_df[k].airport>> :
        <<i, k>> \in {p \in (DOMAIN reports_df) \X (DOMAIN lookup_reporters_df) :
                        /\ reports_df[p[1]].reporteurclass = MAREP
                        /\ \E d \in DOMAIN time_df : time_df[d].date = reports_df[p[1]].date
                        /\ lookup_reporters_df[p[2]].reporteurid = reports_df[p[1]].reporteurid}}

\* C25: every Total Maintenance Reports row carries the takeoffs and the flight hours
\* summed over all rows of the flight aggregate of its aircraft; an aircraft with MAREP
\* reports and no row in the flight aggregate keeps its rows, with null flight measures.
C25_TotalsCarryFlightSums ==
    pc = "done" =>
        /\ \A t \in total_maint_reports :
             IF FlightRowsOf(t.aircraftregistration) = {}
             THEN t.takeoffs = NaN /\ t.flighthours = NaN
             ELSE /\ t.takeoffs = SumOver(FlightRowsOf(t.aircraftregistration),
                                          [r \in agg_flights |-> r.takeoffs])
                  /\ t.flighthours = SumOver(FlightRowsOf(t.aircraftregistration),
                                             [r \in agg_flights |-> r.flighthours])
        /\ {<<t.aircraftregistration, t.airportcode>> : t \in total_maint_reports}
               = ReportedPairs

\* r1 flew on two days, and r2, which never flew, has a MAREP report: its row is kept
C25_Witness ==
    /\ pc = "done"
    /\ Cardinality(FlightRowsOf("r1")) = 2
    /\ FlightRowsOf("r2") = {}
    /\ \E t \in total_maint_reports :
         t.aircraftregistration = "r2" /\ t.takeoffs = NaN /\ t.flighthours = NaN

----------------------------------------------------------------------------
(* Fact rows and the dimension rows they reference *)

\* the fact rows whose aircraft, date or airport is in no dimension
UnknownDaily ==
    {r \in daily_flight_stats :
        \/ Lookup(dw.Aircrafts, r.aircraftregistration) = None
        \/ Lookup(dw.Date, r.date) = None}
UnknownTotal ==
    {t \in total_maint_reports :
        \/ Lookup(dw.Aircrafts, t.aircraftregistration) = None
        \/ Lookup(dw.Airports, t.airportcode) = None}

\* the fact loaders have run to their end
FactsLoaded == pc \in {"commit_facts", "loaded"}

\* C26: every inserted fact row references existing dimension rows; a fact row whose
\* aircraft, date or airport is in no dimension is skipped, raises nothing and does not
\* stop the load of the rows that remain.
C26_FactsReferenceDimensions ==
    /\ \A f \in dw.DailyAircraftStats :
         /\ \E a \in dw.Aircrafts : a.id = f.aircraftid
         /\ \E d \in dw.Date : d.id = f.dateid
    /\ \A f \in dw.TotalMaintenanceReports :
         /\ \E a \in dw.Aircrafts : a.id = f.aircraftid
         /\ \E p \in dw.Airports : p.id = f.airportid
    /\ raised = "facts" =>
         \/ UnknownDaily # daily_flight_stats
         \/ UnknownTotal # total_maint_reports
    /\ FactsLoaded =>
         /\ \A r \in daily_flight_stats \ UnknownDaily :
              \E f \in dw.DailyAircraftStats :
                 /\ f.aircraftid = Lookup(dw.Aircrafts, r.aircraftregistration)
                 /\ f.dateid = Lookup(dw.Date, r.date)
         /\ \A t \in total_maint_reports \ UnknownTotal :
              \E f \in dw.TotalMaintenanceReports :
                 /\ f.aircraftid = Lookup(dw.Aircrafts, t.aircraftregistration)
                 /\ f.airportid = Lookup(dw.Airports, t.airportcode)
         /\ Cardinality(dw.DailyAircraftStats)
                = Cardinality(daily_flight_stats \ UnknownDaily)

\* the load ended: a daily row of an aircraft the dimension lacks was skipped, and
\* another daily row was inserted
C26_Witness ==
    /\ pc = "loaded"
    /\ raised = NoError
    /\ UnknownDaily # {}
    /\ dw.DailyAircraftStats # {}

----------------------------------------------------------------------------
(* The removing rules split their input between the cleaned frame and the log *)

\* a rule that received df and found log in its file left dfNext and logNext: the rows
\* it kept are rows of df, unchanged, and the rows it wrote, the last rows of logNext,
\* are the rows it removed, one for one
Partitioned(df, dfNext, log, logNext) ==
    LET removed == (DOMAIN df) \ (DOMAIN dfNext)
        n == Cardinality(removed)
        m == Len(logNext) - n
    IN /\ (DOMAIN dfNext) \subseteq (DOMAIN df)
       /\ \A i \in DOMAIN dfNext : dfNext[i] = df[i]
       /\ m >= 0
       /\ \E f \in [1..n -> removed] :
            /\ \A j, k \in 1..n : f[j] = f[k] => j = k
            /\ \A k \in 1..n : logNext[m + k] = df[f[k]]
       /\ m = 0 \/ SubSeq(logNext, 1, m) = log

\* C27: BR-2 and BR-3 partition their input: every flight BR-2 received is afterwards
\* either in the cleaned flights or among the rows this run wrote to the overlapping
\* log, never both and never neither, and as many rows were written as were removed;
\* the same for the reports, BR-3 and the invalid-reports log.
C27_RulesPartitionInput ==
    [][/\ (pc = "rule2") =>
            Partitioned(flights_df, flights_df',
                        overlapping_flights_csv, overlapping_flights_csv')
       /\ (pc = "rule3") =>
            Partitioned(reports_df, reports_df',
                        invalid_reports_csv, invalid_reports_csv')]_vars

\* both rules removed a row: of the two flights one is left and the other was written
\* after the row of an earlier run, and the only report went to its log
C27_Witness ==
    /\ pc = "flights"
    /\ Cardinality(DOMAIN extracted_data.flights) = 2
    /\ Cardinality(DOMAIN gate_flights) = 1
    /\ Len(overlapping_flights_csv) = 2
    /\ DOMAIN reports_df = {}
    /\ Len(invalid_reports_csv) = 2

----------------------------------------------------------------------------
(* Flight hours after BR-1 *)

\* the cleaned flights of the cell (date, aircraft) of an aggregate row, whose date is
\* a date code until the reconciler turns it into a day
CellFlights(r) ==
    {i \in DOMAIN gate_flights :
        /\ gate_flights[i].aircraftregistration = r.aircraftregistration
        /\ to_datetime(build_dateCode(gate_flights[i].scheduleddeparture))
               = (IF Reconciled THEN r.date ELSE to_datetime(r.date))}

\* the flight was cancelled or lacks an actual timestamp
NotFlown(row) == row.cancelled \/ row.actualdeparture = NaT \/ row.actualarrival = NaT

\* C28: BR-1 runs before the flight hours are derived, so the flighthours of every row of
\* the flight aggregate and of the daily fact table is at least 0, and it is 0 for a
\* cell whose flights are all cancelled or lack an actual timestamp.
C28_FlightHoursNonNegative ==
    /\ \A r \in agg_flights :
         /\ r.flighthours >= 0
         /\ (\A i \in CellFlights(r) : NotFlown(gate_flights[i])) => r.flighthours = 0
    /\ \A r \in daily_flight_stats : r.flighthours >= 0

\* a flight extracted with its arrival before its departure reached the daily fact
\* table with positive flight hours, next to a cell of flights that never flew
C28_Witness ==
    /\ pc = "done"
    /\ \E i \in DOMAIN extracted_data.flights :
         /\ i \in Rule1Violations(extracted_data.flights)
         /\ extracted_data.flights[i].actualarrival
                < extracted_data.flights[i].actualdeparture
         /\ i \in DOMAIN gate_flights
    /\ \E r \in daily_flight_stats : r.flighthours > 0
    /\ \E r \in agg_flights :
         /\ r.flighthours = 0
         /\ \A i \in CellFlights(r) : NotFlown(gate_flights[i])

----------------------------------------------------------------------------
(* The flight counts of a cell *)

\* delays, takeoffs and delayduration of one row agree with one another
CountsAgree(r) ==
    /\ r.delays <= r.takeoffs
    /\ (r.delays = 0) => r.delayduration = 0
    /\ (r.delays > 0) =>
          /\ 15 * r.delays < r.delayduration
          /\ r.delayduration < 360 * r.delays

\* C29: in every row of the flight aggregate and of the daily fact table, takeoffs plus
\* cancellations is the number of cleaned flights of the cell, delays is at most
\* takeoffs, delayduration is 0 when delays is 0 and lies strictly between 15 * delays
\* and 360 * delays minutes otherwise.
C29_FlightCounts ==
    \A r \in agg_flights \cup daily_flight_stats :
        /\ r.takeoffs + r.cancellations = Cardinality(CellFlights(r))
        /\ CountsAgree(r)

\* a daily row of two flights: one cancelled, the other delayed by twenty minutes
C29_Witness ==
    /\ pc = "done"
    /\ \E r \in daily_flight_stats :
         /\ r.takeoffs = 1
         /\ r.cancellations = 1
         /\ r.delays = 1
         /\ r.delayduration = 20
         /\ Cardinality(CellFlights(r)) = 2

----------------------------------------------------------------------------
(* Date codes *)

\* the flights carry their date code
DateCoded == pc \in {"maint", "reports", "merge", "total", "done"}

\* the day on which flight i was scheduled to depart
ScheduledDay(i) == DayStart(extracted_data.flights[i].scheduleddeparture)

====
